---- MODULE Spec2Model ----
(***************************************************************************)
(* The search driver of the symbolic execution engine                      *)
(* (exec/heuristics.rs), its lock / join / deadlock discipline             *)
(* (exec/locks.rs) and the MPOR filter (exec/mpor.rs), as a state machine. *)
(*                                                                         *)
(* One behaviour follows one root-to-leaf walk of the execution tree: the  *)
(* driver tick execute_instruction_for_all_states runs on the leaf         *)
(* remaining_states, phase by phase in the order of the code, and the      *)
(* heuristic then picks one bucket of the returned map as the next leaf.   *)
(***************************************************************************)
EXTENDS Integers, Sequences, FiniteSets, TLC

VARIABLES
    prog,              \* the program under verification (fixed by Init)
    mpor,              \* whether the MPOR filter of the driver is applied
    remaining_states,  \* heuristics.rs:44   the leaf handed to the driver
    idx,               \* position of the `for state in remaining_states` loop
    scheduled_states,  \* heuristics.rs:57
    resulting_states,  \* heuristics.rs:46   pc -> Vec<State>
    path_counter,      \* heuristics.rs:37   last id handed out
    phase,             \* the driver's position inside the tick
    result,            \* how the tick ended: "None", "Ok", "Err", "Panic"
    position,          \* heuristics.rs:185   the SourcePos of an Err (else -1)
    retired,           \* the states the second loop has dropped in this tick
    expired,           \* heuristics.rs:106   elapsed() >= options.time_budget
    access_prev,       \* mpor.rs:131   has_access_conflicts: argument prev
    access_curr,       \* mpor.rs:131   has_access_conflicts: argument curr
    access_conflict,   \* mpor.rs:131   its result: "unset", "true" or "false"
    tree,              \* heuristics.rs:224   the execution tree, node id -> node
    tree_last,         \* the last operation on the tree: "none", "split", "finish"
    tree_leaf,         \* heuristics.rs:224   finish_state_in_path: argument leaf
    tree_out,          \* heuristics.rs:224   its result: "unset", "true", "false"
    ref_op,            \* the operation whose reference is resolved
    ref_state,         \* eval_reference.rs:53   argument state (var is "s")
    ref_out,           \* the successor states the resolution leaves
    ref_done,          \* whether the resolution has returned
    md_cfg,            \* md2u_recursive.rs:90-91   the program and its flows (by name)
    md_method,         \* md2u_recursive.rs:88   the method whose distance is asked
    md_coverage,       \* md2u_recursive.rs:89   the covered pcs
    md_result,         \* md2u_recursive.rs:94   what the call of MD2U on main returned
    md_done,           \* whether it has been called
    md_again,          \* what a second call returned, on an empty cache and on the cache of the first
    alg_op,            \* the function on costs that is run: "fix_cycles", "replace"
    alg_in,            \* md2u_recursive.rs:384, 421   its arguments
    alg_out,           \* what it leaves
    alg_done           \* whether it has been called

access_vars == <<access_prev, access_curr, access_conflict>>

tree_vars == <<tree, tree_last, tree_leaf, tree_out>>

ref_vars == <<ref_op, ref_state, ref_out, ref_done>>

md_vars == <<md_cfg, md_method, md_coverage, md_result, md_done, md_again>>

alg_vars == <<alg_op, alg_in, alg_out, alg_done>>

\* the state of the functions that are run on their own
unit_vars == <<access_vars, tree_vars, ref_vars, md_vars, alg_vars>>

driver_vars == <<prog, mpor, remaining_states, idx, scheduled_states,
                 resulting_states, path_counter, phase, result, position,
                 retired, expired>>

vars == <<driver_vars, unit_vars>>

---------------------------------------------------------------------------
(* Bounds and names                                                        *)

\* options.k: the path-length bound of the search
K == 16

Enabled  == "Enabled"
Disabled == "Disabled"
Finished == "Finished"
Excepted == "Excepted"

None == [some |-> FALSE, acc |-> <<>>]
Some(a) == [some |-> TRUE, acc |-> a]

---------------------------------------------------------------------------
(* Generic helpers                                                         *)

Max(S) == CHOOSE x \in S : \A y \in S : y <= x
Min(S) == CHOOSE x \in S : \A y \in S : x <= y

RECURSIVE SortedSeq(_)
SortedSeq(S) == IF S = {} THEN <<>> ELSE <<Min(S)>> \o SortedSeq(S \ {Min(S)})

Range(s) == {s[j] : j \in DOMAIN s}
Last(s) == s[Len(s)]
Front(s) == SubSeq(s, 1, Len(s) - 1)

\* the sum of the lengths of the sequences m[k], k in keys
RECURSIVE TotalLen(_, _)
TotalLen(m, keys) ==
    IF keys = {} THEN 0
    ELSE LET k == CHOOSE k \in keys : TRUE
         IN  Len(m[k]) + TotalLen(m, keys \ {k})

\* HashMap::insert / remove on a function used as a map
MapPut(m, k, v) == [x \in DOMAIN m \cup {k} |-> IF x = k THEN v ELSE m[x]]
MapDel(m, k) == [x \in DOMAIN m \ {k} |-> m[x]]
EmptyMap == [x \in {} |-> 0]

---------------------------------------------------------------------------
(* Programs: pc -> CFGStatement and the flow map pc -> [pc]                *)

Stmt(kind, var, field, val, entry) ==
    [kind |-> kind, var |-> var, field |-> field, val |-> val, entry |-> entry]

SEntry      == Stmt("FunctionEntry", "", "", 0, 0)
SExit       == Stmt("FunctionExit", "", "", 0, 0)
SLock(v)    == Stmt("Lock", v, "", 0, 0)
SUnlock(v)  == Stmt("Unlock", v, "", 0, 0)
SAssign(v, f, c) == Stmt("Assign", v, f, c, 0)
SFork(e)    == Stmt("Fork", "", "", 0, e)
SJoin       == Stmt("Join", "", "", 0, 0)
SThrow      == Stmt("Throw", "", "", 0, 0)
SCall(e)    == Stmt("Call", "", "", 0, e)
SAssert(v, f, c) == Stmt("Assert", v, f, c, 0)
SAssume(v, f, c) == Stmt("Assume", v, f, c, 0)
SWhile(e)   == Stmt("While", "", "", 0, e)
SGoto(e)    == Stmt("Continue", "", "", 0, e)

\* main forks two threads and joins them; the bodies are placed at 10.. and 20..
MainOf2 == (0 :> SEntry) @@ (1 :> SFork(10)) @@ (2 :> SFork(20)) @@ (3 :> SJoin) @@ (4 :> SExit)

\* Thread A: lock(m); x = 1; unlock(m)   Thread B: lock(m); x = 2; unlock(m)
TwoLock ==
    MainOf2
    @@ (10 :> SEntry) @@ (11 :> SLock("m")) @@ (12 :> SAssign("o", "x", 1))
    @@ (13 :> SUnlock("m")) @@ (14 :> SExit)
    @@ (20 :> SEntry) @@ (21 :> SLock("m")) @@ (22 :> SAssign("o", "x", 2))
    @@ (23 :> SUnlock("m")) @@ (24 :> SExit)

\* Thread A: lock(a); lock(b)   Thread B: lock(b); lock(a)
DeadlockProg ==
    MainOf2
    @@ (10 :> SEntry) @@ (11 :> SLock("a")) @@ (12 :> SLock("b")) @@ (13 :> SExit)
    @@ (20 :> SEntry) @@ (21 :> SLock("b")) @@ (22 :> SLock("a")) @@ (23 :> SExit)

\* main forks two workers of the same method and contends for m itself
Contend ==
    (0 :> SEntry) @@ (1 :> SFork(10)) @@ (2 :> SFork(10)) @@ (3 :> SLock("m"))
    @@ (4 :> SAssign("o", "x", 3)) @@ (5 :> SUnlock("m")) @@ (6 :> SJoin) @@ (7 :> SExit)
    @@ (10 :> SEntry) @@ (11 :> SLock("m")) @@ (12 :> SAssign("o", "x", 1))
    @@ (13 :> SUnlock("m")) @@ (14 :> SExit)

\* Thread A is queued on m while thread B is inside its critical section:
\* A: q = 1; p = 1; lock(m); x = 1; unlock(m)   B: lock(m); q = 2; p = 2; unlock(m)
Queued ==
    MainOf2
    @@ (10 :> SEntry) @@ (11 :> SAssign("o", "q", 1)) @@ (12 :> SAssign("o", "p", 1))
    @@ (13 :> SLock("m")) @@ (14 :> SAssign("o", "x", 1)) @@ (15 :> SUnlock("m"))
    @@ (16 :> SExit)
    @@ (20 :> SEntry) @@ (21 :> SLock("m")) @@ (22 :> SAssign("o", "q", 2))
    @@ (23 :> SAssign("o", "p", 2)) @@ (24 :> SUnlock("m")) @@ (25 :> SExit)

\* the forked thread throws an exception that no clause handles
Throwing ==
    (0 :> SEntry) @@ (1 :> SFork(10)) @@ (2 :> SJoin) @@ (3 :> SExit)
    @@ (10 :> SEntry) @@ (11 :> SThrow) @@ (12 :> SExit)

\* main and a forked thread call the same method
Calling ==
    (0 :> SEntry) @@ (1 :> SFork(20)) @@ (2 :> SCall(10)) @@ (3 :> SJoin) @@ (4 :> SExit)
    @@ (10 :> SEntry) @@ (11 :> SAssign("o", "x", 1)) @@ (12 :> SExit)
    @@ (20 :> SEntry) @@ (21 :> SCall(10)) @@ (22 :> SExit)

\* two writers of x and a thread asserting that x is still 0
Asserting ==
    (0 :> SEntry) @@ (1 :> SFork(10)) @@ (2 :> SFork(20)) @@ (3 :> SFork(10))
    @@ (4 :> SJoin) @@ (5 :> SExit)
    @@ (10 :> SEntry) @@ (11 :> SAssign("o", "x", 2)) @@ (12 :> SExit)
    @@ (20 :> SEntry) @@ (21 :> SAssert("o", "x", 0)) @@ (22 :> SExit)

\* a writer of x and a thread assuming that x is still 0
Assuming ==
    MainOf2
    @@ (10 :> SEntry) @@ (11 :> SAssign("o", "x", 2)) @@ (12 :> SExit)
    @@ (20 :> SEntry) @@ (21 :> SAssume("o", "x", 0)) @@ (22 :> SExit)

\* main forks a thread and then a method that does not exist
BadFork ==
    (0 :> SEntry) @@ (1 :> SFork(10)) @@ (2 :> SFork(90)) @@ (3 :> SJoin) @@ (4 :> SExit)
    @@ (10 :> SEntry) @@ (11 :> SAssign("o", "x", 1)) @@ (12 :> SExit)

\* while (*) { x = 1; }: the guard at 1 flows into the body and to the exit,
\* the end of the body flows back to the guard
Looping ==
    (0 :> SEntry) @@ (1 :> SWhile(4)) @@ (2 :> SAssign("o", "x", 1)) @@ (3 :> SGoto(1))
    @@ (4 :> SExit)

\* main locks m while it holds m: lock(m); lock(m); x = 1; unlock(m); unlock(m)
Reentrant ==
    (0 :> SEntry) @@ (1 :> SLock("m")) @@ (2 :> SLock("m")) @@ (3 :> SAssign("o", "x", 1))
    @@ (4 :> SUnlock("m")) @@ (5 :> SUnlock("m")) @@ (6 :> SExit)

Programs == {"TwoLock", "Deadlock", "Contend", "Queued", "Throwing", "Calling",
             "Asserting", "Assuming", "BadFork", "Looping", "Reentrant"}

Program(p) ==
    CASE p = "TwoLock"  -> TwoLock
      [] p = "Deadlock" -> DeadlockProg
      [] p = "Contend"  -> Contend
      [] p = "Queued"   -> Queued
      [] p = "Throwing" -> Throwing
      [] p = "Calling"  -> Calling
      [] p = "Asserting" -> Asserting
      [] p = "Assuming" -> Assuming
      [] p = "BadFork"  -> BadFork
      [] p = "Looping"  -> Looping
      [] p = "Reentrant" -> Reentrant

\* flows: a loop guard continues at the next pc and behind the loop, the end
\* of a loop body at the guard, every other statement but a FunctionExit at
\* the next pc
Flows(p) ==
    LET P == Program(p)
    IN  [pc \in {q \in DOMAIN P : P[q].kind # "FunctionExit"} |->
            CASE P[pc].kind = "While" -> <<pc + 1, P[pc].entry>>
              [] P[pc].kind = "Continue" -> <<P[pc].entry>>
              [] OTHER -> <<pc + 1>>]

\* the frame of every thread binds the same identifiers to concrete references
StackOf(p) ==
    ("m" :> [kind |-> "Ref", ref |-> 1]) @@ ("a" :> [kind |-> "Ref", ref |-> 2])
    @@ ("b" :> [kind |-> "Ref", ref |-> 3]) @@ ("o" :> [kind |-> "Ref", ref |-> 4])

---------------------------------------------------------------------------
(* exec/locks.rs                                                           *)

\* lock_ref that disables the caller without queueing it
lock_ref_Unqueued(state, ref) ==
    IF ref \in DOMAIN state.lock_requests
    THEN [state EXCEPT !.threads[state.active_thread].state = Disabled]
    ELSE [state EXCEPT !.lock_requests = MapPut(@, ref, <<>>)]

\* lock_ref that queues the caller without disabling it
lock_ref_NoDisable(state, ref) ==
    IF ref \in DOMAIN state.lock_requests
    THEN [state EXCEPT !.lock_requests[ref] = Append(@, state.active_thread)]
    ELSE [state EXCEPT !.lock_requests = MapPut(@, ref, <<>>)]

\* locks.rs:68-80.  An absent entry is created empty (the caller holds the
\* lock and stays as it is); a present entry queues the caller and disables it.
lock_ref(state, ref) ==
    IF ref \in DOMAIN state.lock_requests
    THEN [state EXCEPT
            !.lock_requests[ref] = Append(@, state.active_thread),
            !.threads[state.active_thread].state = Disabled]
    ELSE [state EXCEPT !.lock_requests = MapPut(@, ref, <<>>)]

\* unlock_ref that wakes only the first waiter of the queue
unlock_ref_WakeFirst(state, ref) ==
    IF ref \in DOMAIN state.lock_requests
    THEN LET requests == state.lock_requests[ref]
         IN  [state EXCEPT
                !.lock_requests = MapDel(@, ref),
                !.threads = [t \in DOMAIN @ |->
                                IF requests # <<>> /\ t = Head(requests)
                                THEN [@[t] EXCEPT !.state = Enabled]
                                ELSE @[t]]]
    ELSE state

\* unlock_ref that removes the entry and wakes nobody
unlock_ref_NoWake(state, ref) ==
    IF ref \in DOMAIN state.lock_requests
    THEN [state EXCEPT !.lock_requests = MapDel(@, ref)]
    ELSE state

\* locks.rs:119-128.  The entry is removed and every queued tid is enabled.
unlock_ref(state, ref) ==
    IF ref \in DOMAIN state.lock_requests
    THEN LET requests == state.lock_requests[ref]
         IN  [state EXCEPT
                !.lock_requests = MapDel(@, ref),
                !.threads = [t \in DOMAIN @ |->
                                IF t \in Range(requests)
                                THEN [@[t] EXCEPT !.state = Enabled]
                                ELSE @[t]]]
    ELSE state

\* unreachable!(..): the process stops; the value has no successor
Unreachable == CHOOSE state \in {} : TRUE

\* locks.rs:48-66.  resulting_alias is vec![aliases]: a vector of one
\* element, the list of the aliases.
lock_for_aliases(state, var) ==
    LET alias_entry == state.alias_map[var]
        resulting_alias == <<alias_entry.aliases>>
    IN  IF Len(resulting_alias) = 1
        THEN lock_ref(state, alias_entry.aliases[1].ref)
        ELSE Unreachable

\* locks.rs:98-117
unlock_for_aliases(state, var) ==
    LET alias_entry == state.alias_map[var]
        resulting_alias == <<alias_entry.aliases>>
    IN  IF Len(resulting_alias) = 1
        THEN unlock_ref(state, alias_entry.aliases[1].ref)
        ELSE Unreachable

\* locks.rs:32-46
exec_lock(state, var) ==
    IF var \in DOMAIN state.alias_map
    THEN lock_for_aliases(state, var)
    ELSE lock_ref(state, state.threads[state.active_thread].stack[var].ref)

\* locks.rs:82-96
exec_unlock(state, var) ==
    IF var \in DOMAIN state.alias_map
    THEN unlock_for_aliases(state, var)
    ELSE unlock_ref(state, state.threads[state.active_thread].stack[var].ref)

\* locks.rs:18-29
update_next_locks(state, statement) ==
    IF statement.kind = "Lock" THEN exec_lock(state, statement.var)
    ELSE IF statement.kind = "Unlock" THEN exec_unlock(state, statement.var)
    ELSE state

\* the living-child test without its test of the child's state
HasLivingChild_AnyChild(state, tid) ==
    \E t \in DOMAIN state.threads : tid \in state.threads[t].parents

\* locks.rs:136: some thread that lists tid as a parent is not Finished
HasLivingChild(state, tid) ==
    \E t \in DOMAIN state.threads :
        tid \in state.threads[t].parents /\ state.threads[t].state # Finished

\* locks.rs:130-143.  The loop runs over a clone of the thread table and
\* writes into the table itself, one thread after the other.
RECURSIVE update_joins_loop(_, _, _)
update_joins_loop(state, program, tids) ==
    IF tids = <<>> THEN state
    ELSE LET tid == Head(tids)
             next == IF program[state.threads[tid].pc].kind = "Join"
                     THEN IF HasLivingChild(state, tid)
                          THEN [state EXCEPT !.threads[tid].state = Disabled]
                          ELSE [state EXCEPT !.threads[tid].state = Enabled]
                     ELSE state
         IN  update_joins_loop(next, program, Tail(tids))

update_joins(state, program) ==
    update_joins_loop(state, program, SortedSeq(DOMAIN state.threads))

\* check_deadlock without its test of thread 0
check_deadlock_NoMain(state) ==
    ~ \E t \in DOMAIN state.threads : state.threads[t].state = Enabled

\* locks.rs:9-16.  TRUE when the function ends in unreachable!("DEADLOCK").
check_deadlock(state) ==
    /\ ~ \E t \in DOMAIN state.threads : state.threads[t].state = Enabled
    /\ ~ (state.threads[0].state = Finished)

---------------------------------------------------------------------------
(* exec/mpor.rs                                                            *)

\* Access: FieldRead/FieldWrite(refs, field), ElemRead/ElemWrite(refs, index),
\* LockAction(refs), Join(tid), FinishedThread(parents)
Acc(kind, refs, field, tid, parents) ==
    [kind |-> kind, refs |-> refs, field |-> field, index |-> "", tid |-> tid,
     parents |-> parents]

ElemAcc(kind, refs, index) ==
    [kind |-> kind, refs |-> refs, field |-> "", index |-> index, tid |-> 0,
     parents |-> {}]

\* The index expressions: two literals and one symbolic value.
Literals == {"0", "1"}

\* eval_assertion on `lhs == rhs`: the prover refutes the equality, which it
\* can for two different literals only.
Distinguished(lhs, rhs) == lhs \in Literals /\ rhs \in Literals /\ lhs # rhs

\* mpor.rs:209-213
compare_expression(lhs, rhs) == ~ Distinguished(lhs, rhs)

\* mpor.rs:116-129: the identifier or the reference an expression stands for
StackIdent(expr) ==
    IF expr.kind \in {"Var", "SymbolicVar", "SymbolicRef"} THEN {expr.var} ELSE {}
StackRef(expr) ==
    IF expr.kind = "Ref" THEN {expr.ref} ELSE {}

\* mpor.rs:97-114: the may-point-to set of var
get_heap_ref(var, stack, alias_map) ==
    LET looked == IF var \in DOMAIN stack THEN {stack[var]} ELSE {}
        identifiers == {var} \cup UNION {StackIdent(e) : e \in looked}
        references == UNION {StackRef(e) : e \in looked}
        aliased == UNION {UNION {StackRef(a) : a \in Range(alias_map[i].aliases)} :
                             i \in identifiers \cap DOMAIN alias_map}
    IN  references \cup aliased

\* mpor.rs:33-81
get_all_accesses(state, statement) ==
    LET thread == state.threads[state.active_thread]
    IN  CASE statement.kind = "Assign" ->
                <<Acc("FieldWrite", get_heap_ref(statement.var, thread.stack, state.alias_map),
                      statement.field, 0, {})>>
          [] statement.kind = "Join" -> <<Acc("Join", {}, "", thread.tid, {})>>
          [] statement.kind = "FunctionExit" ->
                IF thread.state = Finished
                THEN <<Acc("FinishedThread", {}, "", 0, thread.parents)>>
                ELSE <<>>
          [] OTHER -> <<>>

\* mpor.rs:83-95
get_lock_accesses(state, statement) ==
    LET thread == state.threads[state.active_thread]
    IN  IF statement.kind \in {"Lock", "Unlock"}
        THEN <<Acc("LockAction", get_heap_ref(statement.var, thread.stack, state.alias_map),
                   "", 0, {})>>
        ELSE <<>>

\* the match on one pair without the comparison of the field names
PairConflicts_AnyField(x, y) ==
    CASE x.kind = "FieldRead" -> y.kind = "FieldWrite" /\ x.refs \cap y.refs # {}
      [] x.kind = "FieldWrite" ->
            y.kind \in {"FieldRead", "FieldWrite"} /\ x.refs \cap y.refs # {}
      [] x.kind = "ElemRead" ->
            y.kind = "ElemWrite" /\ x.refs \cap y.refs # {}
            /\ compare_expression(x.index, y.index)
      [] x.kind = "ElemWrite" ->
            y.kind \in {"ElemRead", "ElemWrite"} /\ x.refs \cap y.refs # {}
            /\ compare_expression(x.index, y.index)
      [] x.kind = "LockAction" -> y.kind = "LockAction" /\ x.refs \cap y.refs # {}
      [] x.kind = "FinishedThread" -> y.kind = "Join" /\ y.tid \in x.parents
      [] OTHER -> FALSE

\* mpor.rs:134-203: one pair, x from prev and y from curr
PairConflicts(x, y) ==
    CASE x.kind = "FieldRead" ->
            y.kind = "FieldWrite" /\ x.refs \cap y.refs # {} /\ x.field = y.field
      [] x.kind = "FieldWrite" ->
            y.kind \in {"FieldRead", "FieldWrite"} /\ x.refs \cap y.refs # {}
            /\ x.field = y.field
      [] x.kind = "ElemRead" ->
            y.kind = "ElemWrite" /\ x.refs \cap y.refs # {}
            /\ compare_expression(x.index, y.index)
      [] x.kind = "ElemWrite" ->
            y.kind \in {"ElemRead", "ElemWrite"} /\ x.refs \cap y.refs # {}
            /\ compare_expression(x.index, y.index)
      [] x.kind = "LockAction" -> y.kind = "LockAction" /\ x.refs \cap y.refs # {}
      [] x.kind = "FinishedThread" -> y.kind = "Join" /\ y.tid \in x.parents
      [] OTHER -> FALSE

\* mpor.rs:131-207
has_access_conflicts(prev, curr) ==
    \E i \in DOMAIN prev : \E j \in DOMAIN curr : PairConflicts(prev[i], curr[j])

\* the loop rejecting on every other thread with recorded accesses that do
\* not conflict, whatever its tid
RECURSIVE quasi_monotonicity_loop_AnyTid(_, _, _)
quasi_monotonicity_loop_AnyTid(state, tids, curr_accesses) ==
    IF tids = <<>> THEN [out |-> TRUE, state |-> state]
    ELSE LET thread == state.threads[Head(tids)]
         IN  IF ~ thread.prev_accesses.some
             THEN quasi_monotonicity_loop_AnyTid(state, Tail(tids), curr_accesses)
             ELSE IF \/ thread.tid = state.active_thread
                     \/ has_access_conflicts(thread.prev_accesses.acc, curr_accesses)
             THEN quasi_monotonicity_loop_AnyTid(
                      [state EXCEPT !.threads[thread.tid].prev_accesses = None],
                      Tail(tids), curr_accesses)
             ELSE [out |-> FALSE, state |-> state]

\* mpor.rs:18-28: the loop over the threads in ascending tid, with its break
RECURSIVE quasi_monotonicity_loop(_, _, _)
quasi_monotonicity_loop(state, tids, curr_accesses) ==
    IF tids = <<>> THEN [out |-> TRUE, state |-> state]
    ELSE LET thread == state.threads[Head(tids)]
         IN  IF ~ thread.prev_accesses.some
             THEN quasi_monotonicity_loop(state, Tail(tids), curr_accesses)
             ELSE IF \/ thread.tid = state.active_thread
                     \/ has_access_conflicts(thread.prev_accesses.acc, curr_accesses)
             THEN quasi_monotonicity_loop(
                      [state EXCEPT !.threads[thread.tid].prev_accesses = None],
                      Tail(tids), curr_accesses)
             ELSE IF thread.tid > state.active_thread
             THEN [out |-> FALSE, state |-> state]
             ELSE quasi_monotonicity_loop(state, Tail(tids), curr_accesses)

\* validate_quasi_monotonicity that keeps the loop's result and does not
\* record the current access set
validate_quasi_monotonicity_NoStore(state, statement, curr_statement) ==
    quasi_monotonicity_loop(state, SortedSeq(DOMAIN state.threads),
                            get_all_accesses(state, statement)
                            \o get_lock_accesses(state, curr_statement))

\* mpor.rs:10-31.  [out, state]: the verdict and the state as the call leaves it.
validate_quasi_monotonicity(state, statement, curr_statement) ==
    LET curr_accesses == get_all_accesses(state, statement)
                         \o get_lock_accesses(state, curr_statement)
        looped == quasi_monotonicity_loop(state, SortedSeq(DOMAIN state.threads),
                                          curr_accesses)
    IN  [out |-> looped.out,
         state |-> [looped.state EXCEPT
                      !.threads[state.active_thread].prev_accesses = Some(curr_accesses)]]

---------------------------------------------------------------------------
(* exec/fork.rs and the action step                                        *)

\* fork_invocation that does not advance the thread counter
fork_invocation_NoCount(state, next_entry) ==
    LET tid == state.thread_counter
        thread == [tid |-> tid, pc |-> next_entry, state |-> Enabled,
                   parents |-> {state.active_thread}, prev_accesses |-> None,
                   stack |-> state.threads[state.active_thread].stack,
                   frames |-> <<next_entry>>]
    IN  [state EXCEPT !.threads = MapPut(@, tid, thread)]

\* fork.rs:56-67.  The new thread starts Enabled, with the forking thread as
\* its parent and no recorded accesses.
fork_invocation(state, next_entry) ==
    LET tid == state.thread_counter
        thread == [tid |-> tid, pc |-> next_entry, state |-> Enabled,
                   parents |-> {state.active_thread}, prev_accesses |-> None,
                   stack |-> state.threads[state.active_thread].stack,
                   frames |-> <<next_entry>>]
    IN  [state EXCEPT !.thread_counter = @ + 1,
                      !.threads = MapPut(@, tid, thread)]

\* ActionResult: FunctionCall and Return carry a pc, InvalidAssertion and
\* InvalidFork a source position (the pc of the statement stands for it).
Result(kind, pc) == [kind |-> kind, pc |-> pc]

\* The action step on the active thread's statement: [next, state], next
\* being the ActionResult.  `frames` holds the return_pc of each stack frame
\* of the thread, the innermost last.
action(state, program) ==
    LET thread == state.threads[state.active_thread]
        statement == program[thread.pc]
        held == state.heap[thread.stack[statement.var].ref][statement.field]
    IN  CASE statement.kind = "Fork" ->
                IF statement.entry \in DOMAIN program
                THEN [next |-> Result("Continue", 0),
                      state |-> fork_invocation(state, statement.entry)]
                ELSE [next |-> Result("InvalidFork", thread.pc), state |-> state]
          [] statement.kind = "Assign" ->
                [next |-> Result("Continue", 0),
                 state |-> [state EXCEPT
                              !.heap[thread.stack[statement.var].ref][statement.field]
                                  = statement.val]]
          [] statement.kind = "Assert" ->
                [next |-> IF held = statement.val
                          THEN Result("Continue", 0)
                          ELSE Result("InvalidAssertion", thread.pc),
                 state |-> state]
          [] statement.kind = "Assume" ->
                [next |-> IF held = statement.val
                          THEN Result("Continue", 0)
                          ELSE Result("InfeasiblePath", 0),
                 state |-> state]
          [] statement.kind = "Call" ->
                [next |-> Result("FunctionCall", statement.entry),
                 state |-> [state EXCEPT !.threads[thread.tid].frames =
                                             Append(@, thread.pc)]]
          [] statement.kind = "FunctionExit" ->
                IF Len(thread.frames) > 1
                THEN [next |-> Result("Return", Last(thread.frames)),
                      state |-> [state EXCEPT !.threads[thread.tid].frames = Front(@)]]
                ELSE [next |-> Result("Finish", 0), state |-> state]
          [] statement.kind = "Throw" -> [next |-> Result("Excepted", 0), state |-> state]
          [] OTHER -> [next |-> Result("Continue", 0), state |-> state]

---------------------------------------------------------------------------
(* exec/heuristics.rs: execute_instruction_for_all_states                  *)

\* the state the search starts from: thread 0 at the entry of main
InitState(p) ==
    [threads |-> (0 :> [tid |-> 0, pc |-> 0, state |-> Enabled, parents |-> {},
                        prev_accesses |-> None, stack |-> StackOf(p),
                        frames |-> <<0>>]),
     active_thread |-> 0,
     heap |-> (4 :> [x |-> 0, p |-> 0, q |-> 0]),
     alias_map |-> EmptyMap,
     lock_requests |-> EmptyMap,
     path_id |-> 0,
     path |-> <<>>,
     path_length |-> 0,
     thread_counter |-> 1]

ActivePc(state) == state.threads[state.active_thread].pc

\* transition_states that skips only the Disabled threads
transition_states_NotDisabled(state) ==
    LET enabled == {t \in DOMAIN state.threads : state.threads[t].state # Disabled}
        order == SortedSeq(enabled)
    IN  [j \in DOMAIN order |-> [state EXCEPT !.active_thread = order[j]]]

\* transition_states that stops after the first Enabled thread
transition_states_FirstOnly(state) ==
    LET enabled == {t \in DOMAIN state.threads : state.threads[t].state = Enabled}
    IN  IF enabled = {} THEN <<>>
        ELSE <<[state EXCEPT !.active_thread = Min(enabled)]>>

\* heuristics.rs:84-90: one clone per Enabled thread, active_thread rewritten
transition_states(state) ==
    LET enabled == {t \in DOMAIN state.threads : state.threads[t].state = Enabled}
        order == SortedSeq(enabled)
    IN  [j \in DOMAIN order |-> [state EXCEPT !.active_thread = order[j]]]

\* the push into the bucket of the active thread's id
BucketPush_ByThread(m, pc, state) ==
    MapPut(m, state.active_thread,
           (IF state.active_thread \in DOMAIN m THEN m[state.active_thread] ELSE <<>>)
           \o <<state>>)

\* resulting_states.entry(pc).or_default().push(state)
BucketPush(m, pc, state) ==
    MapPut(m, pc, (IF pc \in DOMAIN m THEN m[pc] ELSE <<>>) \o <<state>>)

\* every branch pushed into the bucket of the first one
BucketPushAll_OneBucket(m, states) ==
    IF states = <<>> THEN m
    ELSE LET pc == ActivePc(Head(states))
         IN  MapPut(m, pc, (IF pc \in DOMAIN m THEN m[pc] ELSE <<>>) \o states)

RECURSIVE BucketPushAll(_, _)
BucketPushAll(m, states) ==
    IF states = <<>> THEN m
    ELSE BucketPushAll(BucketPush(m, ActivePc(Head(states)), Head(states)), Tail(states))

\* the write of the thread state left out
SetActive_NoMark(state, pc, st) ==
    [state EXCEPT !.threads[state.active_thread].pc = pc]

\* heuristics.rs:177, 195: the active thread gets the state st (its pc stays)
SetActive(state, pc, st) ==
    [state EXCEPT !.threads[state.active_thread].pc = pc,
                  !.threads[state.active_thread].state = st]

\* heuristics.rs:155, 163: the active thread moves to pc
SetPc(state, pc) == [state EXCEPT !.threads[state.active_thread].pc = pc]

\* the move to the first neighbour without the count of the step
Continued_NoCount(state, pc) == SetPc(state, pc)

\* heuristics.rs:155-156: the active thread moves to the first neighbour and
\* the step is counted
Continued(state, pc) == [SetPc(state, pc) EXCEPT !.path_length = @ + 1]

\* heuristics.rs:128-183, 193-197: the arms of `match next` that push the
\* state into the resulting-states map.  `keep` is the outcome that changes
\* nothing.
route_push(next, state, program, flows, keep) ==
    LET pc == ActivePc(state)
        resulting == keep.resulting
    IN  CASE next.kind = "FunctionCall" ->
                [keep EXCEPT !.resulting = BucketPush(resulting, next.pc,
                                                      SetPc(state, next.pc))]
          [] next.kind = "Return" ->
                IF next.pc \in DOMAIN flows
                THEN [keep EXCEPT !.resulting =
                          BucketPush(resulting, Head(flows[next.pc]),
                                     SetPc(state, Head(flows[next.pc])))]
                ELSE [keep EXCEPT !.result = "Panic"]
          [] next.kind = "Continue" /\ pc \in DOMAIN flows ->
                LET neighbours == flows[pc]
                    first == Continued(state, Head(neighbours))
                    others == [j \in 1..(Len(neighbours) - 1) |->
                                  [SetPc(first, neighbours[j + 1])
                                      EXCEPT !.path_id = keep.counter + j]]
                IN  [keep EXCEPT !.resulting = BucketPushAll(resulting, others \o <<first>>),
                                 !.counter = keep.counter + Len(others)]
          [] next.kind = "Continue" /\ pc \notin DOMAIN flows ->
                IF program[pc].kind = "FunctionExit"
                THEN [keep EXCEPT !.resulting =
                          BucketPush(resulting, pc, SetActive(state, pc, Finished))]
                ELSE [keep EXCEPT !.result = "Panic"]
          [] next.kind = "Finish" ->
                [keep EXCEPT !.resulting =
                    BucketPush(resulting, pc, SetActive(state, pc, Finished))]

\* `match next` with an invalid assertion or fork retired like an infeasible
\* path
route_SkipsInvalid(next, state, program, flows, resulting, counter) ==
    LET keep == [resulting |-> resulting, counter |-> counter, result |-> "None",
                 position |-> -1, dropped |-> <<>>]
    IN  CASE next.kind \in {"InvalidAssertion", "InvalidFork", "InfeasiblePath"} ->
                [keep EXCEPT !.dropped = <<state>>]
          [] next.kind = "Excepted" ->
                [keep EXCEPT !.dropped = <<SetActive(state, ActivePc(state), Excepted)>>]
          [] OTHER -> route_push(next, state, program, flows, keep)

\* `match next` with an excepted state pushed like a finished one
route_PushesExcepted(next, state, program, flows, resulting, counter) ==
    LET keep == [resulting |-> resulting, counter |-> counter, result |-> "None",
                 position |-> -1, dropped |-> <<>>]
    IN  CASE next.kind \in {"InvalidAssertion", "InvalidFork"} ->
                [keep EXCEPT !.result = "Err", !.position = next.pc]
          [] next.kind = "InfeasiblePath" -> [keep EXCEPT !.dropped = <<state>>]
          [] next.kind = "Excepted" ->
                [keep EXCEPT !.resulting =
                    BucketPush(resulting, ActivePc(state),
                               SetActive(state, ActivePc(state), Excepted))]
          [] OTHER -> route_push(next, state, program, flows, keep)

\* heuristics.rs:127-202: what the driver does with the result of the action
\* on the popped state: the map and the path counter as it leaves them, how
\* the tick goes on ("None": with the next pop), the position of an Err, and
\* the state it has dropped, if any.
route(next, state, program, flows, resulting, counter) ==
    LET keep == [resulting |-> resulting, counter |-> counter, result |-> "None",
                 position |-> -1, dropped |-> <<>>]
    IN  CASE next.kind \in {"InvalidAssertion", "InvalidFork"} ->
                [keep EXCEPT !.result = "Err", !.position = next.pc]
          [] next.kind = "InfeasiblePath" -> [keep EXCEPT !.dropped = <<state>>]
          [] next.kind = "Excepted" ->
                [keep EXCEPT !.dropped = <<SetActive(state, ActivePc(state), Excepted)>>]
          [] OTHER -> route_push(next, state, program, flows, keep)

\* the retirement test with the bound one step late
out_of_budget_Late(state) == state.path_length > K \/ expired

\* the retirement test without the wall clock
out_of_budget_NoClock(state) == state.path_length >= K

\* heuristics.rs:105-106
out_of_budget(state) == state.path_length >= K \/ expired

Advance ==
    IF idx < Len(remaining_states)
    THEN idx' = idx + 1 /\ phase' = "mpor"
    ELSE idx' = idx /\ phase' = "pop"

\* what the first loop of the driver never writes
first_loop_frame == <<prog, mpor, resulting_states, path_counter, position,
                      retired, expired, unit_vars>>

\* heuristics.rs:69-77
Mpor ==
    /\ phase = "mpor"
    /\ LET state == remaining_states[idx]
           program == Program(prog)
       IN  IF mpor /\ state.path # <<>>
           THEN LET pc == Last(state.path)[2]
                    v == validate_quasi_monotonicity(state, program[pc],
                                                     program[ActivePc(state)])
                IN  /\ remaining_states' = [remaining_states EXCEPT ![idx] = v.state]
                    /\ IF v.out THEN idx' = idx /\ phase' = "locks" ELSE Advance
           ELSE /\ phase' = "locks"
                /\ UNCHANGED <<remaining_states, idx>>
    /\ UNCHANGED <<first_loop_frame, scheduled_states, result>>

\* heuristics.rs:79
Locks ==
    /\ phase = "locks"
    /\ LET state == remaining_states[idx]
       IN  remaining_states' = [remaining_states EXCEPT ![idx] =
               update_next_locks(state, Program(prog)[ActivePc(state)])]
    /\ phase' = "joins"
    /\ UNCHANGED <<first_loop_frame, idx, scheduled_states, result>>

\* heuristics.rs:80
Joins ==
    /\ phase = "joins"
    /\ remaining_states' = [remaining_states EXCEPT ![idx] =
           update_joins(remaining_states[idx], Program(prog))]
    /\ phase' = "deadlock"
    /\ UNCHANGED <<first_loop_frame, idx, scheduled_states, result>>

\* heuristics.rs:81
Deadlock ==
    /\ phase = "deadlock"
    /\ IF check_deadlock(remaining_states[idx])
       THEN phase' = "aborted" /\ result' = "Panic"
       ELSE phase' = "expand" /\ result' = result
    /\ UNCHANGED <<first_loop_frame, remaining_states, idx, scheduled_states>>

\* heuristics.rs:84-95
Expand ==
    /\ phase = "expand"
    /\ scheduled_states' = scheduled_states \o transition_states(remaining_states[idx])
    /\ Advance
    /\ UNCHANGED <<first_loop_frame, remaining_states, result>>

\* heuristics.rs:106: the wall clock passes the time budget between two pops
TimePasses ==
    /\ phase = "pop"
    /\ scheduled_states # <<>>
    /\ ~ expired
    /\ expired' = TRUE
    /\ UNCHANGED <<prog, mpor, remaining_states, idx, scheduled_states,
                   resulting_states, path_counter, phase, result, position,
                   retired, unit_vars>>

\* heuristics.rs:100-203: one turn of the `while let Some(state) = pop()` loop.
\* An Err return drops the locals of the driver (heuristics.rs:185, 188).
Step ==
    /\ phase = "pop"
    /\ scheduled_states # <<>>
    /\ LET popped == Last(scheduled_states)
           state == [popped EXCEPT !.path = Append(@, <<popped.active_thread, ActivePc(popped)>>)]
       IN  IF out_of_budget(state)
           THEN /\ scheduled_states' = Front(scheduled_states)
                /\ retired' = Append(retired, SetActive(state, ActivePc(state), Finished))
                /\ UNCHANGED <<resulting_states, path_counter, phase, result, position>>
           ELSE LET a == action(state, Program(prog))
                    r == route(a.next, a.state, Program(prog), Flows(prog),
                               resulting_states, path_counter)
                IN  /\ scheduled_states' = IF r.result = "Err" THEN <<>>
                                           ELSE Front(scheduled_states)
                    /\ resulting_states' = IF r.result = "Err" THEN EmptyMap
                                           ELSE r.resulting
                    /\ path_counter' = r.counter
                    /\ result' = r.result
                    /\ position' = r.position
                    /\ retired' = retired \o r.dropped
                    /\ phase' = IF r.result = "None" THEN "pop" ELSE "aborted"
    /\ UNCHANGED <<prog, mpor, remaining_states, idx, expired, unit_vars>>

\* heuristics.rs:210
Return ==
    /\ phase = "pop"
    /\ scheduled_states = <<>>
    /\ phase' = "returned"
    /\ result' = "Ok"
    /\ UNCHANGED <<first_loop_frame, remaining_states, idx, scheduled_states>>

\* The heuristic takes one bucket of the returned map as the next leaf.
Pick ==
    /\ phase = "returned"
    /\ \E pc \in DOMAIN resulting_states :
          remaining_states' = resulting_states[pc]
    /\ idx' = 1
    /\ scheduled_states' = <<>>
    /\ resulting_states' = EmptyMap
    /\ retired' = <<>>
    /\ phase' = "mpor"
    /\ result' = "None"
    /\ UNCHANGED <<prog, mpor, path_counter, position, expired, unit_vars>>

\* has_access_conflicts is not called
NoAccesses ==
    /\ access_prev = <<>>
    /\ access_curr = <<>>
    /\ access_conflict = "unset"

\* there is no execution tree
NoTree ==
    /\ tree = EmptyMap
    /\ tree_last = "none"
    /\ tree_leaf = -1
    /\ tree_out = "unset"

\* no reference is resolved on its own
NoExecRef ==
    /\ ref_op = "none"
    /\ ref_state = EmptyMap
    /\ ref_out = <<>>
    /\ ref_done = FALSE

\* the result of MD2U before the call
NotCalled == [status |-> "unset", distance |-> [distance_type |-> 1, value |-> 0],
              pc_to_distance |-> EmptyMap, cache |-> EmptyMap, found |-> {},
              calls |-> 0]

\* MD2U has not been called a second time
NotRepeated == [fresh |-> NotCalled, reused |-> NotCalled]

\* the arguments and the results of a function on costs
CostArguments(pc, cost, map, method, d) ==
    [pc |-> pc, cost |-> cost, map |-> map, method |-> method, d |-> d]
CostResults(once, twice, replaced) ==
    [once |-> once, twice |-> twice, replaced |-> replaced]
NoCostResults == CostResults(EmptyMap, EmptyMap, [k |-> "Panicked"])

\* no function on costs is run
NoCosts ==
    /\ alg_op = "none"
    /\ alg_in = CostArguments(0, [k |-> "Panicked"], EmptyMap, "none",
                              [distance_type |-> 1, value |-> 0])
    /\ alg_out = NoCostResults
    /\ alg_done = FALSE

\* MD2U is not computed
NoMd2u ==
    /\ md_cfg = "none"
    /\ md_method = "none"
    /\ md_coverage = {}
    /\ md_result = NotCalled
    /\ md_done = FALSE
    /\ md_again = NotRepeated

\* the driver called on the leaf <<state>> for the first time
Entered(state) ==
    /\ remaining_states = <<state>>
    /\ idx = 1
    /\ scheduled_states = <<>>
    /\ resulting_states = EmptyMap
    /\ path_counter = 0
    /\ phase = "mpor"
    /\ result = "None"
    /\ position = -1
    /\ retired = <<>>
    /\ expired = FALSE

Init ==
    /\ prog \in Programs
    /\ mpor = TRUE
    /\ Entered(InitState(prog))
    /\ NoAccesses
    /\ NoTree
    /\ NoExecRef
    /\ NoMd2u
    /\ NoCosts

Next == Mpor \/ Locks \/ Joins \/ Deadlock \/ Expand \/ TimePasses \/ Step \/ Return \/ Pick

Spec == Init /\ [][Next]_vars

\* The same driver started with the MPOR filter either on or off
\* (heuristics.rs:68, `if mpor`), on the two programs whose complete run
\* with the filter off is small.
InitEitherMode ==
    /\ prog \in {"TwoLock", "Queued"}
    /\ mpor \in BOOLEAN
    /\ Entered(InitState(prog))
    /\ NoAccesses
    /\ NoTree
    /\ NoExecRef
    /\ NoMd2u
    /\ NoCosts

SpecEitherMode == InitEitherMode /\ [][Next]_vars

\* has_access_conflicts called on its own: every prev and curr of up to three
\* accesses together, over two fields, three index expressions, three
\* reference sets, two thread ids and two parent sets.
RefSets == {{1}, {2}, {1, 2}}

Accesses ==
    {Acc(k, r, f, 0, {}) : k \in {"FieldRead", "FieldWrite"}, r \in RefSets, f \in {"x", "y"}}
    \cup {ElemAcc(k, r, i) : k \in {"ElemRead", "ElemWrite"}, r \in RefSets,
                             i \in Literals \cup {"i"}}
    \cup {Acc("LockAction", r, "", 0, {}) : r \in RefSets}
    \cup {Acc("Join", {}, "", t, {}) : t \in {0, 1}}
    \cup {Acc("FinishedThread", {}, "", 0, ps) : ps \in {{0}, {1}}}

AccessLists(n) == UNION {[1..m -> Accesses] : m \in 1..n}

InitConflicts ==
    /\ prog = "TwoLock"
    /\ mpor = TRUE
    /\ remaining_states = <<InitState(prog)>>
    /\ idx = 1
    /\ scheduled_states = <<>>
    /\ resulting_states = EmptyMap
    /\ path_counter = 0
    /\ phase = "conflicts"
    /\ result = "None"
    /\ position = -1
    /\ retired = <<>>
    /\ expired = FALSE
    /\ \E n \in 1..2 :
          /\ access_prev \in AccessLists(n)
          /\ access_curr \in AccessLists(3 - n)
    /\ access_conflict = "unset"
    /\ NoTree
    /\ NoExecRef
    /\ NoMd2u
    /\ NoCosts

\* the call and its return
Conflicts ==
    /\ phase = "conflicts"
    /\ access_conflict = "unset"
    /\ access_conflict' = IF has_access_conflicts(access_prev, access_curr)
                          THEN "true" ELSE "false"
    /\ UNCHANGED <<prog, mpor, remaining_states, idx, scheduled_states,
                   resulting_states, path_counter, phase, result, position,
                   retired, expired, access_prev, access_curr, tree_vars,
                   ref_vars, md_vars, alg_vars>>

SpecConflicts == InitConflicts /\ [][Conflicts]_vars

---------------------------------------------------------------------------
(* The execution tree and finish_state_in_path (heuristics.rs:215-245)     *)

\* the most nodes the tree ever holds
MaxNodes == 7

\* a parent back-link that cannot be upgraded: the node is the root
NoParent == -1

Node(parent, children) == [kind |-> "Node", parent |-> parent, children |-> children]
Leaf(parent) == [kind |-> "Leaf", parent |-> parent, children |-> <<>>]

\* children.retain(|child| !Rc::ptr_eq(child, &leaf))   heuristics.rs:234
Retain(children, leaf) == SelectSeq(children, LAMBDA child : child # leaf)

\* the walk that stops at the parent of the leaf
RECURSIVE finish_state_in_path_NoAscend(_, _)
finish_state_in_path_NoAscend(t, leaf) ==
    IF t[leaf].parent = NoParent THEN [tree |-> t, out |-> "true"]
    ELSE LET parent == t[leaf].parent
             children == Retain(t[parent].children, leaf)
             removed == [t EXCEPT ![parent].children = children]
         IN  IF t[parent].kind = "Leaf" THEN [tree |-> t, out |-> "panic"]
             ELSE [tree |-> removed,
                   out |-> IF children = <<>> THEN "true" ELSE "false"]

\* heuristics.rs:224-245
RECURSIVE finish_state_in_path(_, _)
finish_state_in_path(t, leaf) ==
    IF t[leaf].parent = NoParent THEN [tree |-> t, out |-> "true"]
    ELSE LET parent == t[leaf].parent
             children == Retain(t[parent].children, leaf)
             removed == [t EXCEPT ![parent].children = children]
         IN  IF t[parent].kind = "Leaf" THEN [tree |-> t, out |-> "panic"]
             ELSE IF children = <<>>
                  THEN finish_state_in_path(removed, parent)
                  ELSE [tree |-> removed, out |-> "false"]

\* the node is the root or a child, of a child, ... of the root
RECURSIVE Attached(_, _)
Attached(t, n) ==
    \/ t[n].parent = NoParent
    \/ /\ n \in Range(t[t[n].parent].children)
       /\ Attached(t, t[n].parent)

\* the frontier: the leaves that are still in the tree
LiveLeaves(t) == {n \in DOMAIN t : t[n].kind = "Leaf" /\ Attached(t, n)}

\* the driver is not running
DriverIdle(ph) ==
    /\ prog = "TwoLock"
    /\ mpor = TRUE
    /\ remaining_states = <<InitState(prog)>>
    /\ idx = 1
    /\ scheduled_states = <<>>
    /\ resulting_states = EmptyMap
    /\ path_counter = 0
    /\ phase = ph
    /\ result = "None"
    /\ position = -1
    /\ retired = <<>>
    /\ expired = FALSE

\* the tree of a search that starts: one leaf, the root
InitTree ==
    /\ DriverIdle("tree")
    /\ NoAccesses
    /\ tree = (0 :> Leaf(NoParent))
    /\ tree_last = "none"
    /\ tree_leaf = -1
    /\ tree_out = "unset"
    /\ NoExecRef
    /\ NoMd2u
    /\ NoCosts

\* The driver returned a map of n buckets for the leaf: the leaf becomes a
\* node whose children are n new leaves.
Split ==
    /\ phase = "tree"
    /\ tree_out # "true"
    /\ \E leaf \in LiveLeaves(tree), n \in 1..3 :
          LET first == Cardinality(DOMAIN tree)
              ids == [j \in 1..n |-> first + j - 1]
          IN  /\ first + n <= MaxNodes
              /\ tree' = [m \in DOMAIN tree \cup Range(ids) |->
                              IF m = leaf THEN Node(tree[leaf].parent, ids)
                              ELSE IF m \in DOMAIN tree THEN tree[m]
                              ELSE Leaf(leaf)]
    /\ tree_last' = "split"
    /\ UNCHANGED <<driver_vars, access_vars, ref_vars, md_vars, alg_vars, tree_leaf,
                    tree_out>>

\* All the states of a leaf of the frontier have retired.
Finish ==
    /\ phase = "tree"
    /\ tree_out # "true"
    /\ \E leaf \in LiveLeaves(tree) :
          LET r == finish_state_in_path(tree, leaf)
          IN  /\ tree' = r.tree
              /\ tree_out' = r.out
              /\ tree_leaf' = leaf
    /\ tree_last' = "finish"
    /\ UNCHANGED <<driver_vars, access_vars, ref_vars, md_vars, alg_vars>>

SpecTree == InitTree /\ [][Split \/ Finish]_vars

---------------------------------------------------------------------------
(* Reference resolution (exec/eval_reference.rs) and the lock operations   *)
(* on a symbolic reference (locks.rs:48-66, 98-117)                        *)

\* the most candidates of an alias entry
MaxAliases == 3

Ref(r) == [kind |-> "Ref", ref |-> r]

\* eval_reference.rs:73: the hook of an operation that writes a field of the
\* object (x := 1)
exec_over_ref(state, ref) == [state EXCEPT !.heap[ref].x = 1]

\* state_split.rs, split_states_with_aliases followed by the reissue of
\* eval_reference.rs:70: one successor per candidate, the alias entry narrowed
\* to the candidate, the hook invoked on it
split_states_with_aliases(state, var, aliases) ==
    [j \in DOMAIN aliases |->
        exec_over_ref([state EXCEPT !.alias_map[var].aliases = <<aliases[j]>>],
                      aliases[j].ref)]

\* eval_reference.rs:53-71.  resulting_alias is vec![aliases]: a vector of
\* one element, the list of the aliases.
exec_over_symbolic_ref(state, var) ==
    LET alias_entry == state.alias_map[var]
        resulting_alias == <<alias_entry.aliases>>
    IN  IF Len(resulting_alias) = 1
        THEN <<exec_over_ref(state, alias_entry.aliases[1].ref)>>
        ELSE split_states_with_aliases(state, var, alias_entry.aliases)

\* the alias lists of 1..n distinct concrete references
AliasLists(n) ==
    {a \in UNION {[1..m -> {Ref(r) : r \in {1, 2, 3}}] : m \in 1..Min({n, 3})} :
        \A i, j \in DOMAIN a : a[i] = a[j] => i = j}

\* lock_requests before the call: each object free, held, or held with
\* thread 1 waiting
LockTables ==
    UNION {[held -> {<<>>, <<1>>}] : held \in SUBSET {1, 2, 3}}

\* a state of two threads whose variable s is a symbolic reference
AliasedState(aliases, requests) ==
    LET base == InitState("TwoLock")
        thread(t) == [base.threads[0] EXCEPT
                         !.tid = t,
                         !.stack = @ @@ ("s" :> [kind |-> "SymbolicRef", var |-> "s"])]
    IN  [base EXCEPT !.threads = (0 :> thread(0)) @@ (1 :> thread(1)),
                     !.heap = [r \in 1..4 |-> base.heap[4]],
                     !.alias_map = ("s" :> [aliases |-> aliases]),
                     !.lock_requests = requests,
                     !.thread_counter = 2]

InitExecRef ==
    /\ DriverIdle("exec_ref")
    /\ NoAccesses
    /\ NoTree
    /\ NoMd2u
    /\ NoCosts
    /\ ref_op \in {"exec", "lock", "unlock"}
    /\ \E aliases \in AliasLists(MaxAliases), requests \in LockTables :
          ref_state = AliasedState(aliases, requests)
    /\ ref_out = <<>>
    /\ ref_done = FALSE

\* the operation on the variable s of the active thread
ExecRef ==
    /\ phase = "exec_ref"
    /\ ~ ref_done
    /\ ref_out' =
          CASE ref_op = "exec" -> exec_over_symbolic_ref(ref_state, "s")
            [] ref_op = "lock" -> <<exec_lock(ref_state, "s")>>
            [] ref_op = "unlock" -> <<exec_unlock(ref_state, "s")>>
    /\ ref_done' = TRUE
    /\ UNCHANGED <<driver_vars, access_vars, tree_vars, md_vars, alg_vars, ref_op,
                    ref_state>>

SpecExecRef == InitExecRef /\ [][ExecRef]_vars

---------------------------------------------------------------------------
(* MD2U cost computation (exec/heuristics/md2u_recursive.rs)               *)

\* DistanceType, in the order of its derived Ord (md2u_recursive.rs:21-25)
ToFirstUncovered == 0
ToEndOfMethod == 1

\* md2u_recursive.rs:28-31
Distance(distance_type, value) == [distance_type |-> distance_type, value |-> value]

\* the derived Ord of Distance: by distance_type, then by value
DistanceMin(d1, d2) ==
    IF \/ d1.distance_type < d2.distance_type
       \/ d1.distance_type = d2.distance_type /\ d1.value <= d2.value
    THEN d1 ELSE d2

\* CumulativeCost (md2u_recursive.rs:44-53)
Cost(d) == [k |-> "Cost", d |-> d]
Cycle(pc, c) == [k |-> "Cycle", pc |-> pc, c |-> c]
Plus(c1, c2) == [k |-> "Plus", c1 |-> c1, c2 |-> c2]
UnexploredMethodCall(m) == [k |-> "UnexploredMethodCall", m |-> m]
Minimal(c1, c2) == [k |-> "Minimal", c1 |-> c1, c2 |-> c2]

\* the value a panicking arm (todo!, unreachable!, unwrap of None) leaves:
\* the computation has stopped
Panicked == [k |-> "Panicked"]

RECURSIVE HasPanicked(_)
HasPanicked(c) ==
    CASE c.k = "Panicked" -> TRUE
      [] c.k \in {"Plus", "Minimal"} -> HasPanicked(c.c1) \/ HasPanicked(c.c2)
      [] OTHER -> FALSE

\* CumulativeCost::plus (md2u_recursive.rs:62-78)
RECURSIVE plus(_, _)
plus(self, cost) ==
    CASE self.k = "Cost" -> Cost(Distance(self.d.distance_type, self.d.value + cost))
      [] self.k = "Cycle" -> Cycle(self.pc, self.c + cost)
      [] self.k = "Plus" -> Plus(self.c1, plus(self.c2, cost))
      [] self.k = "UnexploredMethodCall" ->
            Plus(self, Cost(Distance(ToEndOfMethod, cost)))
      [] self.k = "Minimal" -> Minimal(plus(self.c1, cost), plus(self.c2, cost))
      [] OTHER -> Panicked

\* md2u_recursive.rs:513-520
minimize(a, b) ==
    CASE a.k = "Cost" /\ b.k = "Cost" -> Cost(DistanceMin(a.d, b.d))
      [] a.k = "Cycle" -> b
      [] b.k = "Cycle" -> a
      [] OTHER -> Minimal(a, b)

\* fix_cycles leaving a cycle on the head with a greater increment
fix_cycles_Increment(pc, resulting_cost, pc_to_cost) ==
    [k \in DOMAIN pc_to_cost |->
        IF pc_to_cost[k].k = "Cycle" /\ pc_to_cost[k].pc = pc
        THEN Cycle(pc, pc_to_cost[k].c + 1)
        ELSE pc_to_cost[k]]

\* fix_cycles repairing nothing
fix_cycles_NoRepair(pc, resulting_cost, pc_to_cost) == pc_to_cost

\* md2u_recursive.rs:421-439
fix_cycles(pc, resulting_cost, pc_to_cost) ==
    [k \in DOMAIN pc_to_cost |->
        IF pc_to_cost[k].k = "Cycle" /\ pc_to_cost[k].pc = pc
        THEN plus(resulting_cost, pc_to_cost[k].c)
        ELSE pc_to_cost[k]]

\* replace_method_call_in_costs leaving the placeholder in place
replace_method_call_in_costs_Kept(method_name, cost, resulting_cost) == cost

\* md2u_recursive.rs:384-419
RECURSIVE replace_method_call_in_costs(_, _, _)
replace_method_call_in_costs(method_name, cost, resulting_cost) ==
    CASE cost.k = "Plus" ->
            LET c1 == replace_method_call_in_costs(method_name, cost.c1, resulting_cost)
                c2 == replace_method_call_in_costs(method_name, cost.c2, resulting_cost)
            IN  IF c1.k = "Cost" /\ c2.k = "Cost"
                THEN Cost(Distance(Min({c1.d.distance_type, c2.d.distance_type}),
                                   c1.d.value + c2.d.value))
                ELSE IF HasPanicked(c1) \/ HasPanicked(c2) THEN Panicked
                ELSE cost
      [] cost.k = "UnexploredMethodCall" /\ cost.m = method_name -> Cost(resulting_cost)
      [] cost.k = "Cycle" -> Panicked
      [] cost.k = "Minimal" ->
            LET c1 == replace_method_call_in_costs(method_name, cost.c1, resulting_cost)
                c2 == replace_method_call_in_costs(method_name, cost.c2, resulting_cost)
            IN  IF c1.k = "Cost" /\ c2.k = "Cost"
                THEN Cost(DistanceMin(c1.d, c2.d))
                ELSE Plus(c1, c2)
      [] OTHER -> cost

\* md2u_recursive.rs:365-382
cleanup_pc_to_cost(method_name, pc_to_cost, resulting_cost) ==
    [k \in DOMAIN pc_to_cost |->
        replace_method_call_in_costs(method_name, pc_to_cost[k], resulting_cost)]

\* md2u_recursive.rs:198-206
RECURSIVE check_for_reducability(_, _)
check_for_reducability(c, current_method) ==
    CASE c.k \in {"Cost", "Cycle"} -> TRUE
      [] c.k \in {"Plus", "Minimal"} ->
            /\ check_for_reducability(c.c1, current_method)
            /\ check_for_reducability(c.c2, current_method)
      [] c.k = "UnexploredMethodCall" -> c.m = current_method
      [] OTHER -> FALSE

\* md2u_recursive.rs:209-236: Option<Distance>, or Panicked for unreachable!()
RECURSIVE reduce(_)
reduce(c) ==
    CASE c.k = "Cost" -> Some(c.d)
      [] c.k = "Plus" ->
            LET d1 == reduce(c.c1)
                d2 == reduce(c.c2)
            IN  IF d1 = Panicked \/ d2 = Panicked THEN Panicked
                ELSE IF d1.some /\ d2.some
                THEN Some(Distance(Min({d1.acc.distance_type, d2.acc.distance_type}),
                                   d1.acc.value + d2.acc.value))
                ELSE None
      [] c.k = "UnexploredMethodCall" -> None
      [] c.k = "Minimal" ->
            LET d1 == reduce(c.c1)
                d2 == reduce(c.c2)
            IN  IF d1 = Panicked \/ d2 = Panicked THEN Panicked
                ELSE IF d1.some /\ d2.some THEN Some(DistanceMin(d1.acc, d2.acc))
                ELSE IF d1.some THEN d1
                ELSE IF d2.some THEN d2
                ELSE None
      [] OTHER -> Panicked

\* A traversal works on w = [pc_to_cost, cache, visited, found, calls]: the
\* working map of the method, the method-cost cache and the visited set, and
\* two records of what it did: the costs that cache.get handed out at call
\* sites (found) and the number of calls of min_distance_to_statement (calls).  cx = [coverage,
\* program, flow, entry] are the arguments that are only read: the set of
\* covered pcs, the statements, the flows and the entry pc of each method
\* (find_entry_for_static_invocation).  A call returns [cost, w, panic]; a
\* panic unwinds the whole call, so every caller looks at panic as soon as a
\* call returns and hands the stopped traversal on.
Returned(cost, w) == [cost |-> cost, w |-> w, panic |-> FALSE]
Stopped(w) == [cost |-> Panicked, w |-> w, panic |-> TRUE]

RECURSIVE min_distance_to_statement(_, _, _, _)
RECURSIVE next_cost(_, _, _, _, _)
RECURSIVE min_method_cost(_, _, _, _)
RECURSIVE min_distance_to_uncovered_method_helper(_, _, _)

\* visited.insert(pc) (md2u_recursive.rs:267), once in every call of
\* min_distance_to_statement
Visit(w, pc) == [w EXCEPT !.visited = @ \cup {pc}, !.calls = @ + 1]

\* pc_to_cost.insert(pc, cost); return cost
inserted(pc, w, cost) ==
    Returned(cost, [w EXCEPT !.pc_to_cost = MapPut(@, pc, cost)])

\* md2u_recursive.rs:296-311, Iterator::reduce after the first successor:
\* the successors in the order of the flow, each either a back-edge to a
\* visited while or a recursive traversal, folded into acc by minimize
next_cost(pcs, acc, method, cx, w) ==
    IF pcs = <<>> THEN Returned(acc, w)
    ELSE LET r == IF cx.program[Head(pcs)].kind = "While" /\ Head(pcs) \in w.visited
                  THEN Returned(Cycle(Head(pcs), 0), w)
                  ELSE min_distance_to_statement(Head(pcs), method, cx, w)
         IN  IF r.panic THEN r
             ELSE next_cost(Tail(pcs), minimize(acc, r.cost), method, cx, r.w)

\* md2u_recursive.rs:186-247: the body cost solved where it can be, the map
\* cleaned up, and the method's cost put into the cache
solved_method(method, w, body) ==
    LET method_body_cost == body.cost
        pc_to_cost == body.w.pc_to_cost
        reduced == reduce(method_body_cost)
        solved ==
            IF method_body_cost.k = "Cost"
            THEN [cost |-> method_body_cost,
                  pc_to_cost |-> cleanup_pc_to_cost(method, pc_to_cost, method_body_cost.d)]
            ELSE IF check_for_reducability(method_body_cost, method)
            THEN IF reduced = Panicked \/ ~ reduced.some
                 THEN [cost |-> Panicked, pc_to_cost |-> pc_to_cost]
                 ELSE [cost |-> Cost(reduced.acc),
                       pc_to_cost |-> cleanup_pc_to_cost(method, pc_to_cost, reduced.acc)]
            ELSE [cost |-> method_body_cost, pc_to_cost |-> pc_to_cost]
    IN  [cost |-> solved.cost,
         pc_to_cost |-> solved.pc_to_cost,
         w |-> [body.w EXCEPT !.pc_to_cost = w.pc_to_cost,
                              !.cache = MapPut(@, method, solved.cost)],
         panic |-> \/ HasPanicked(solved.cost)
                   \/ \E k \in DOMAIN solved.pc_to_cost :
                         HasPanicked(solved.pc_to_cost[k])]

\* md2u_recursive.rs:175-187: after the traversal of the body
after_body(method, w, body) ==
    IF body.panic
    THEN [cost |-> Panicked, pc_to_cost |-> EmptyMap, w |-> body.w, panic |-> TRUE]
    ELSE solved_method(method, w, body)

\* md2u_recursive.rs:154-250: [cost, pc_to_cost] of the method, and w with
\* the cache and the visited set as the traversal leaves them (the working
\* map of w is the caller's)
min_distance_to_uncovered_method_helper(method, cx, w) ==
    after_body(method, w,
               min_distance_to_statement(cx.entry[method], method, cx,
                                         [w EXCEPT !.pc_to_cost = EmptyMap]))

\* md2u_recursive.rs:490-497: pc_to_cost.extend(method_pc_to_cost), and
\* cost.increased_by_one()
after_helper(w, h) ==
    IF h.panic THEN Stopped(h.w)
    ELSE Returned(plus(h.cost, 1),
                  [h.w EXCEPT !.pc_to_cost = h.pc_to_cost @@ w.pc_to_cost])

\* md2u_recursive.rs:471-498: the cost of one resolved method, looked up in
\* the cache, found in progress, or traversed now
method_cost(method, cx, w) ==
    CASE method \in DOMAIN w.cache ->
            Returned(plus(w.cache[method], 1),
                     [w EXCEPT !.found = @ \cup {w.cache[method]}])
      [] cx.entry[method] \in w.visited ->
            Returned(plus(UnexploredMethodCall(method), 1), w)
      [] OTHER ->
            after_helper(w, min_distance_to_uncovered_method_helper(method, cx, w))

\* md2u_recursive.rs:468-501, Iterator::reduce after the first method: the
\* methods the invocation resolves to, folded into acc by minimize
min_method_cost(methods, acc, cx, w) ==
    IF methods = <<>> THEN Returned(acc, w)
    ELSE LET r == method_cost(Head(methods), cx, w)
         IN  IF r.panic THEN r
             ELSE min_method_cost(Tail(methods), minimize(acc, r.cost), cx, r.w)

\* the first resolved method starts the reduce (.expect("at least one
\* resolved method") panics when there is none)
after_first_method(methods, cx, first) ==
    IF first.panic THEN first
    ELSE min_method_cost(Tail(methods), first.cost, cx, first.w)

\* statement_cost without the test of the coverage
statement_cost_NoCoverage(pc, cx, w) ==
    CASE cx.program[pc].kind = "Call" /\ cx.program[pc].methods = <<>> -> Stopped(w)
      [] cx.program[pc].kind = "Call" ->
            after_first_method(cx.program[pc].methods, cx,
                               method_cost(Head(cx.program[pc].methods), cx, w))
      [] OTHER -> Returned(Cost(Distance(ToEndOfMethod, 1)), w)

\* md2u_recursive.rs:443-511
statement_cost(pc, cx, w) ==
    CASE pc \notin cx.coverage -> Returned(Cost(Distance(ToFirstUncovered, 1)), w)
      [] cx.program[pc].kind = "Call" /\ cx.program[pc].methods = <<>> -> Stopped(w)
      [] cx.program[pc].kind = "Call" ->
            after_first_method(cx.program[pc].methods, cx,
                               method_cost(Head(cx.program[pc].methods), cx, w))
      [] OTHER -> Returned(Cost(Distance(ToEndOfMethod, 1)), w)

\* md2u_recursive.rs:320-362: the cost of the pc from the cost of its
\* statement (this) and the cost of the remainder
cost_of_statement(pc, cx, remaining_cost, this) ==
    IF this.panic THEN this
    ELSE CASE this.cost.k = "Cost" /\ this.cost.d.distance_type = ToEndOfMethod ->
                 inserted(pc,
                          IF cx.program[pc].kind = "While"
                          THEN [this.w EXCEPT !.pc_to_cost =
                                   fix_cycles(pc, plus(remaining_cost, this.cost.d.value), @)]
                          ELSE this.w,
                          plus(remaining_cost, this.cost.d.value))
           [] this.cost.k = "Cost" -> inserted(pc, this.w, this.cost)
           [] this.cost.k \in {"Plus", "UnexploredMethodCall", "Minimal"} ->
                 inserted(pc, this.w, Plus(this.cost, remaining_cost))
           [] OTHER -> Stopped(this.w)

\* md2u_recursive.rs:316-318: the statement's cost is found after the
\* remainder's
after_remaining(pc, cx, remaining) ==
    IF remaining.panic THEN remaining
    ELSE cost_of_statement(pc, cx, remaining.cost, statement_cost(pc, cx, remaining.w))

\* the first successor starts the reduce of md2u_recursive.rs:296-311
after_first(pc, method, cx, first) ==
    IF first.panic THEN first
    ELSE after_remaining(pc, cx,
             next_cost(Tail(cx.flow[pc]), first.cost, method, cx, first.w))

\* min_distance_to_statement without the lookup of the pc in the working map
min_distance_to_statement_NoMemo(pc, method, cx, w) ==
    CASE cx.program[pc].kind = "FunctionExit" ->
            inserted(pc, Visit(w, pc),
                     Cost(Distance(IF pc \notin cx.coverage THEN ToFirstUncovered
                                   ELSE ToEndOfMethod, 1)))
      [] pc \notin DOMAIN cx.flow \/ cx.flow[pc] = <<>> -> Stopped(w)
      [] OTHER ->
            after_first(pc, method, cx,
                IF /\ cx.program[Head(cx.flow[pc])].kind = "While"
                   /\ Head(cx.flow[pc]) \in w.visited
                THEN Returned(Cycle(Head(cx.flow[pc]), 0), Visit(w, pc))
                ELSE min_distance_to_statement(Head(cx.flow[pc]), method, cx,
                                               Visit(w, pc)))

\* md2u_recursive.rs:254-363
min_distance_to_statement(pc, method, cx, w) ==
    CASE pc \in DOMAIN w.pc_to_cost -> Returned(w.pc_to_cost[pc], Visit(w, pc))
      [] cx.program[pc].kind = "FunctionExit" ->
            inserted(pc, Visit(w, pc),
                     Cost(Distance(IF pc \notin cx.coverage THEN ToFirstUncovered
                                   ELSE ToEndOfMethod, 1)))
      [] pc \notin DOMAIN cx.flow \/ cx.flow[pc] = <<>> -> Stopped(w)
      [] OTHER ->
            after_first(pc, method, cx,
                IF /\ cx.program[Head(cx.flow[pc])].kind = "While"
                   /\ Head(cx.flow[pc]) \in w.visited
                THEN Returned(Cycle(Head(cx.flow[pc]), 0), Visit(w, pc))
                ELSE min_distance_to_statement(Head(cx.flow[pc]), method, cx,
                                               Visit(w, pc)))

\* md2u_recursive.rs:87-150: min_distance_to_uncovered_method and its helper1
\* on an empty visited set: the distance of the method, the distance of every
\* pc, and the cache it leaves; "panic" when the process stops.
min_distance_to_uncovered_method(method, cx, cache) ==
    LET h == min_distance_to_uncovered_method_helper(method, cx,
                 [pc_to_cost |-> EmptyMap, cache |-> cache, visited |-> {},
                  found |-> {}, calls |-> 0])
        kept == {m \in DOMAIN h.w.cache :
                    /\ h.w.cache[m].k = "Cost"
                    /\ h.w.cache[m].d.distance_type # ToFirstUncovered}
    IN  IF \/ h.panic
           \/ h.cost.k # "Cost"
           \/ \E k \in DOMAIN h.pc_to_cost : h.pc_to_cost[k].k # "Cost"
        THEN [status |-> "panic", distance |-> Distance(ToEndOfMethod, 0),
              pc_to_distance |-> EmptyMap, cache |-> EmptyMap,
              found |-> h.w.found, calls |-> h.w.calls]
        ELSE [status |-> "ok", distance |-> h.cost.d,
              pc_to_distance |-> [k \in DOMAIN h.pc_to_cost |-> h.pc_to_cost[k].d],
              cache |-> [m \in kept |-> h.w.cache[m]],
              found |-> h.w.found, calls |-> h.w.calls]

\* the statements of a CFG
CfgEntry == [kind |-> "FunctionEntry", methods |-> <<>>]
CfgExit == [kind |-> "FunctionExit", methods |-> <<>>]
CfgStatement == [kind |-> "Statement", methods |-> <<>>]
CfgWhile == [kind |-> "While", methods |-> <<>>]
CfgCall(methods) == [kind |-> "Call", methods |-> methods]

\* utils::group_by (md2u_recursive.rs:603): the flows grouped by their source
Grouped(edges) ==
    [pc \in {e[1] : e \in Range(edges)} |->
        LET at == SelectSeq(edges, LAMBDA e : e[1] = pc)
        IN  [j \in DOMAIN at |-> at[j][2]]]

\* examples/reachability/while.oox (md2u_recursive.rs:608-643):
\* main(int) with `while (i < 10) i = i + 1;`
WhileCfg ==
    [program |-> [pc \in {0, 2, 5, 8, 10, 12, 15, 17, 18} |->
                     CASE pc = 0 -> CfgEntry [] pc = 8 -> CfgWhile
                       [] pc = 18 -> CfgExit [] OTHER -> CfgStatement],
     flow |-> Grouped(<<<<0, 2>>, <<2, 5>>, <<5, 8>>, <<8, 10>>, <<10, 12>>,
                        <<12, 8>>, <<8, 15>>, <<15, 17>>, <<17, 18>>>>),
     entry |-> [main |-> 0]]

\* examples/reachability/nested_while.oox (md2u_recursive.rs:903-944): a
\* while loop (22) inside the body of a while loop (8)
NestedWhileCfg ==
    [program |-> [pc \in {0, 2, 5, 8, 10, 13, 16, 19, 22, 24, 26, 28, 31, 33, 34} |->
                     CASE pc = 0 -> CfgEntry [] pc \in {8, 22} -> CfgWhile
                       [] pc = 34 -> CfgExit [] OTHER -> CfgStatement],
     flow |-> Grouped(<<<<0, 2>>, <<2, 5>>, <<5, 8>>, <<8, 10>>, <<10, 13>>,
                        <<13, 16>>, <<16, 19>>, <<19, 22>>, <<22, 24>>, <<24, 26>>,
                        <<26, 22>>, <<22, 28>>, <<28, 8>>, <<8, 31>>, <<31, 33>>,
                        <<33, 34>>>>),
     entry |-> [main |-> 0]]

\* if (..) { 2; 3 } else { 4 }; 6: the branches join at a statement
BranchCfg ==
    [program |-> [pc \in {0, 1, 2, 3, 4, 6, 7} |->
                     CASE pc = 0 -> CfgEntry [] pc = 7 -> CfgExit [] OTHER -> CfgStatement],
     flow |-> Grouped(<<<<0, 1>>, <<1, 2>>, <<2, 3>>, <<3, 6>>, <<1, 4>>, <<4, 6>>,
                        <<6, 7>>>>),
     entry |-> [main |-> 0]]

\* while (..) { if (..) { 4 } else { 5 }; 6 }; 7: the branches join inside
\* the loop
LoopBranchCfg ==
    [program |-> [pc \in 0..8 |->
                     CASE pc = 0 -> CfgEntry [] pc = 1 -> CfgWhile
                       [] pc = 8 -> CfgExit [] OTHER -> CfgStatement],
     flow |-> Grouped(<<<<0, 1>>, <<1, 2>>, <<2, 3>>, <<3, 4>>, <<4, 6>>, <<3, 5>>,
                        <<5, 6>>, <<6, 1>>, <<1, 7>>, <<7, 8>>>>),
     entry |-> [main |-> 0]]

\* if (..) { 2 } else { 3 }; while (..) { 5 }; 6: the branches join at the
\* loop
BranchLoopCfg ==
    [program |-> [pc \in 0..7 |->
                     CASE pc = 0 -> CfgEntry [] pc = 4 -> CfgWhile
                       [] pc = 7 -> CfgExit [] OTHER -> CfgStatement],
     flow |-> Grouped(<<<<0, 1>>, <<1, 2>>, <<2, 4>>, <<1, 3>>, <<3, 4>>, <<4, 5>>,
                        <<5, 4>>, <<4, 6>>, <<6, 7>>>>),
     entry |-> [main |-> 0]]

\* examples/reachability/recursive.oox (md2u_recursive.rs:687-736): main calls
\* f_recursive (8), which returns at once (25, 27) or calls itself (21)
RecursiveCfg ==
    [program |-> [pc \in {0, 2, 5, 8, 10, 11, 12, 13, 15, 18, 21, 23, 25, 27, 28} |->
                     CASE pc \in {0, 12} -> CfgEntry [] pc \in {11, 28} -> CfgExit
                       [] pc \in {8, 21} -> CfgCall(<<"f_recursive">>)
                       [] OTHER -> CfgStatement],
     flow |-> Grouped(<<<<0, 2>>, <<2, 5>>, <<5, 8>>, <<8, 10>>, <<10, 11>>,
                        <<12, 13>>, <<13, 15>>, <<15, 18>>, <<18, 21>>, <<21, 23>>,
                        <<23, 28>>, <<13, 25>>, <<25, 27>>, <<27, 28>>>>),
     entry |-> [main |-> 0, f_recursive |-> 12]]

\* main calls f (1) and then g (2); f returns at once (12) or calls g (13),
\* g returns at once (22) or calls f (23)
MutualCfg ==
    [program |-> [pc \in {0, 1, 2, 3, 10, 11, 12, 13, 14, 20, 21, 22, 23, 24} |->
                     CASE pc \in {0, 10, 20} -> CfgEntry [] pc \in {3, 14, 24} -> CfgExit
                       [] pc \in {1, 23} -> CfgCall(<<"f">>)
                       [] pc \in {2, 13} -> CfgCall(<<"g">>)
                       [] OTHER -> CfgStatement],
     flow |-> Grouped(<<<<0, 1>>, <<1, 2>>, <<2, 3>>,
                        <<10, 11>>, <<11, 12>>, <<12, 14>>, <<11, 13>>, <<13, 14>>,
                        <<20, 21>>, <<21, 22>>, <<22, 24>>, <<21, 23>>, <<23, 24>>>>),
     entry |-> [main |-> 0, f |-> 10, g |-> 20]]

Cfgs == {"While", "NestedWhile", "Branch", "LoopBranch", "BranchLoop",
         "Recursive", "Mutual"}

Cfg(name) ==
    CASE name = "While" -> WhileCfg
      [] name = "NestedWhile" -> NestedWhileCfg
      [] name = "Branch" -> BranchCfg
      [] name = "LoopBranch" -> LoopBranchCfg
      [] name = "BranchLoop" -> BranchLoopCfg
      [] name = "Recursive" -> RecursiveCfg
      [] name = "Mutual" -> MutualCfg

\* the most pcs a coverage map lacks
MaxUncovered == 2

\* the arguments of a call on the program with the covered pcs
Md2uArguments(name, coverage) ==
    [coverage |-> coverage, program |-> Cfg(name).program, flow |-> Cfg(name).flow,
     entry |-> Cfg(name).entry]

\* the call on a method of the program with an empty cache
Md2uOf(name, method, coverage) ==
    min_distance_to_uncovered_method(method, Md2uArguments(name, coverage), EmptyMap)

InitMd2u ==
    /\ DriverIdle("md2u")
    /\ NoAccesses
    /\ NoTree
    /\ NoExecRef
    /\ NoCosts
    /\ md_cfg \in Cfgs
    /\ md_method \in DOMAIN Cfg(md_cfg).entry
    /\ \E uncovered \in SUBSET DOMAIN Cfg(md_cfg).program :
          /\ Cardinality(uncovered) <= MaxUncovered
          /\ md_coverage = DOMAIN Cfg(md_cfg).program \ uncovered
    /\ md_result = NotCalled
    /\ md_done = FALSE
    /\ md_again = NotRepeated

\* min_distance_to_uncovered_method on the method
Md2u ==
    /\ phase = "md2u"
    /\ ~ md_done
    /\ md_result' = Md2uOf(md_cfg, md_method, md_coverage)
    /\ md_done' = TRUE
    /\ UNCHANGED <<driver_vars, access_vars, tree_vars, ref_vars, alg_vars, md_cfg,
                    md_method, md_coverage, md_again>>

\* the caller asks again with the same arguments after a call that returned
\* (the tests of md2u_recursive.rs each build a new cache, 612; the cache is
\* a &mut argument that "may be reused", 86): once with a new cache, once
\* with the cache the first call left
Md2uAgain ==
    /\ phase = "md2u"
    /\ md_done
    /\ md_result.status = "ok"
    /\ md_again = NotRepeated
    /\ md_again' =
          [fresh |-> Md2uOf(md_cfg, md_method, md_coverage),
           reused |-> min_distance_to_uncovered_method(
                          md_method, Md2uArguments(md_cfg, md_coverage), md_result.cache)]
    /\ UNCHANGED <<driver_vars, access_vars, tree_vars, ref_vars, alg_vars, md_cfg,
                    md_method, md_coverage, md_result, md_done>>

SpecMd2u == InitMd2u /\ [][Md2u \/ Md2uAgain]_vars

---------------------------------------------------------------------------
(* fix_cycles and replace_method_call_in_costs run on their own            *)

\* the greatest value of a Distance and the greatest increment of a Cycle
MaxValue == 2

Distances == {Distance(t, v) : t \in {ToFirstUncovered, ToEndOfMethod}, v \in 1..MaxValue}
Heads == {8, 22}
Methods == {"f", "g"}

Costs == {Cost(d) : d \in Distances}
Cycles == {Cycle(pc, c) : pc \in Heads, c \in 0..MaxValue}
Placeholders == {UnexploredMethodCall(m) : m \in Methods}

\* the costs with one Plus or Minimal over the costs xs and ys
Composed(xs, ys) ==
    {Plus(x, y) : x \in xs, y \in ys} \cup {Minimal(x, y) : x \in xs, y \in ys}

\* what a map entry can hold when a loop head finishes: a cost, a cycle, a
\* call of a method in progress followed by a remainder (lines 341-361), or
\* the minimum of such a call and a cost (line 519)
EntryCosts ==
    Costs \cup Cycles
       \cup {Plus(Plus(UnexploredMethodCall("f"), Cost(Distance(ToEndOfMethod, 1))), y) :
                y \in Cycles \cup {Cost(Distance(ToEndOfMethod, 1))}}
       \cup {Minimal(Plus(Plus(UnexploredMethodCall("f"),
                               Cost(Distance(ToEndOfMethod, 1))), y),
                     Cost(Distance(ToEndOfMethod, MaxValue))) : y \in Cycles}

\* what the head's own cost can be (line 327): remaining_cost.plus(value)
HeadCosts ==
    {plus(x, 1) : x \in {Cost(Distance(t, 1)) : t \in {ToFirstUncovered, ToEndOfMethod}}
                          \cup {Cycle(pc, c) : pc \in Heads, c \in 0..(MaxValue - 1)}
                          \cup Placeholders}

\* the cost trees handed to replace_method_call_in_costs (lines 190, 239):
\* costs and placeholders under at most two Plus or Minimal
CostTrees ==
    LET leaves == Costs \cup Placeholders
        one == Composed(leaves, leaves)
    IN  leaves \cup one \cup Composed(one, {Cost(Distance(ToEndOfMethod, 1))})

InitCosts ==
    /\ DriverIdle("costs")
    /\ NoAccesses
    /\ NoTree
    /\ NoExecRef
    /\ NoMd2u
    /\ alg_op \in {"fix_cycles", "replace"}
    /\ \/ /\ alg_op = "fix_cycles"
          /\ \E pc \in Heads, cost \in HeadCosts, map \in [{10, 12} -> EntryCosts] :
                alg_in = CostArguments(pc, cost, map, "none", Distance(ToEndOfMethod, 0))
       \/ /\ alg_op = "replace"
          /\ \E cost \in CostTrees, method \in Methods, d \in Distances :
                alg_in = CostArguments(0, cost, EmptyMap, method, d)
    /\ alg_out = NoCostResults
    /\ alg_done = FALSE

\* fix_cycles(pc, cost, map), and once more on what it leaves
FixCycles ==
    /\ phase = "costs"
    /\ alg_op = "fix_cycles"
    /\ ~ alg_done
    /\ alg_out' =
          CostResults(fix_cycles(alg_in.pc, alg_in.cost, alg_in.map),
                      fix_cycles(alg_in.pc, alg_in.cost,
                                 fix_cycles(alg_in.pc, alg_in.cost, alg_in.map)),
                      Panicked)
    /\ alg_done' = TRUE
    /\ UNCHANGED <<driver_vars, access_vars, tree_vars, ref_vars, md_vars, alg_op, alg_in>>

\* replace_method_call_in_costs(method, cost, d)
Replace ==
    /\ phase = "costs"
    /\ alg_op = "replace"
    /\ ~ alg_done
    /\ alg_out' =
          CostResults(EmptyMap, EmptyMap,
                      replace_method_call_in_costs(alg_in.method, alg_in.cost, alg_in.d))
    /\ alg_done' = TRUE
    /\ UNCHANGED <<driver_vars, access_vars, tree_vars, ref_vars, md_vars, alg_op, alg_in>>

SpecCosts == InitCosts /\ [][FixCycles \/ Replace]_vars

\* every state of a resulting-states map
BucketStates(m) == UNION {Range(m[pc]) : pc \in DOMAIN m}

\* The heaps of the paths that run out of Enabled threads when the driver is
\* run to the end from `state`, every bucket being taken up in turn: the
\* first loop on the state (heuristics.rs:58-96), the second loop on each of
\* its transitions (heuristics.rs:100-203), then the same on every state of
\* the returned map.  A rejected state, a state cut by the bound and a
\* deadlock leave no outcome.
RECURSIVE final_heaps(_, _, _)
final_heaps(state, p, filter) ==
    LET program == Program(p)
        v == IF filter /\ state.path # <<>>
             THEN validate_quasi_monotonicity(state, program[Last(state.path)[2]],
                                              program[ActivePc(state)])
             ELSE [out |-> TRUE, state |-> state]
        locked == update_next_locks(v.state, program[ActivePc(v.state)])
        joined == update_joins(locked, program)
        transitions == transition_states(joined)
        stepped(popped) ==
            LET s == [popped EXCEPT
                        !.path = Append(@, <<popped.active_thread, ActivePc(popped)>>)]
            IN  IF s.path_length >= K THEN {}
                ELSE LET a == action(s, program)
                         r == route(a.next, a.state, program, Flows(p), EmptyMap, 0)
                     IN  UNION {final_heaps(n, p, filter) : n \in BucketStates(r.resulting)}
    IN  IF ~ v.out \/ check_deadlock(joined) THEN {}
        ELSE IF transitions = <<>> THEN {joined.heap}
        ELSE UNION {stepped(transitions[j]) : j \in DOMAIN transitions}

---------------------------------------------------------------------------
(* Vocabulary of the properties                                            *)

\* the state the first loop of the driver is working on
TickState == remaining_states[idx]

\* every symbolic state the driver holds
AllStates ==
    Range(remaining_states) \cup Range(scheduled_states)
    \cup UNION {Range(resulting_states[pc]) : pc \in DOMAIN resulting_states}

StatementOf(state, t) == Program(prog)[state.threads[t].pc]

Refs == {StackOf(prog)[v].ref : v \in DOMAIN StackOf(prog)}

\* the reference a Lock or Unlock statement of thread t names
RefOfStatement(state, t, statement) == state.threads[t].stack[statement.var].ref

\* the statements of one method occupy one decade of program counters
SameMethod(pc1, pc2) == pc1 \div 10 = pc2 \div 10

\* Thread t is strictly inside a critical section on r: it has passed more
\* lock(r) statements than it has reached unlock(r) statements.  (Reaching
\* unlock(r) is what releases r in the driver, so a thread standing at its
\* unlock(r) is counted as outside.)
Inside(state, t, r) ==
    LET pc == state.threads[t].pc
        P == Program(prog)
        locks == {q \in DOMAIN P : /\ SameMethod(q, pc) /\ q < pc /\ P[q].kind = "Lock"
                                   /\ RefOfStatement(state, t, P[q]) = r}
        unlocks == {q \in DOMAIN P : /\ SameMethod(q, pc) /\ q <= pc /\ P[q].kind = "Unlock"
                                     /\ RefOfStatement(state, t, P[q]) = r}
    IN  Cardinality(locks) > Cardinality(unlocks)

\* Thread t has passed a lock(r) statement and not yet passed its unlock(r).
PassedLock(state, t, r) ==
    LET pc == state.threads[t].pc
        P == Program(prog)
        locks == {q \in DOMAIN P : /\ SameMethod(q, pc) /\ q < pc /\ P[q].kind = "Lock"
                                   /\ RefOfStatement(state, t, P[q]) = r}
        unlocks == {q \in DOMAIN P : /\ SameMethod(q, pc) /\ q < pc /\ P[q].kind = "Unlock"
                                     /\ RefOfStatement(state, t, P[q]) = r}
    IN  Cardinality(locks) > Cardinality(unlocks)

\* the state with the thread table and the lock queues blanked: what a lock,
\* unlock or join update must leave alone
Frame(state) == [state EXCEPT !.threads = EmptyMap, !.lock_requests = EmptyMap]

---------------------------------------------------------------------------
(* C1  Mutual exclusion on a lock reference: in every state the driver     *)
(* holds, at most one thread is inside a critical section on r.  The woken *)
(* waiters of a release would have to acquire r again before passing their *)
(* lock(r); they do not, so this is violated.                              *)
C1_MutualExclusion ==
    \A s \in AllStates : \A r \in Refs :
        Cardinality({t \in DOMAIN s.threads : Inside(s, t, r)}) <= 1

---------------------------------------------------------------------------
(* C2  Acquire(r) by the active thread: an absent lock_requests[r] is      *)
(* created empty and the active thread stays Enabled; a present one gets   *)
(* the active tid appended at its tail and the active thread becomes       *)
(* Disabled.  No other thread and no other queue changes.                  *)
C2_Acquire ==
    [][(phase = "locks" /\ StatementOf(TickState, TickState.active_thread).kind = "Lock") =>
        LET pre == remaining_states[idx]
            post == remaining_states'[idx]
            a == pre.active_thread
            r == RefOfStatement(pre, a, StatementOf(pre, a))
        IN  /\ Frame(post) = Frame(pre)
            /\ DOMAIN post.threads = DOMAIN pre.threads
            /\ \A t \in DOMAIN pre.threads \ {a} : post.threads[t] = pre.threads[t]
            /\ \A x \in DOMAIN pre.lock_requests \ {r} :
                   x \in DOMAIN post.lock_requests
                   /\ post.lock_requests[x] = pre.lock_requests[x]
            /\ DOMAIN post.lock_requests = DOMAIN pre.lock_requests \cup {r}
            /\ IF r \in DOMAIN pre.lock_requests
               THEN /\ post.lock_requests[r] = pre.lock_requests[r] \o <<a>>
                    /\ post.threads[a] = [pre.threads[a] EXCEPT !.state = Disabled]
               ELSE /\ post.lock_requests[r] = <<>>
                    /\ post.threads[a] = pre.threads[a]
                    /\ post.threads[a].state = Enabled
    ]_vars

\* an Acquire has just queued the active thread behind an earlier waiter
C2_Witness ==
    /\ phase = "joins"
    /\ StatementOf(TickState, TickState.active_thread).kind = "Lock"
    /\ LET a == TickState.active_thread
           r == RefOfStatement(TickState, a, StatementOf(TickState, a))
       IN  /\ r \in DOMAIN TickState.lock_requests
           /\ Len(TickState.lock_requests[r]) = 2
           /\ TickState.lock_requests[r][2] = a
           /\ TickState.threads[a].state = Disabled

---------------------------------------------------------------------------
(* C3  Release(r): lock_requests[r] is removed and every thread that was   *)
(* queued on r becomes Enabled; a release of an absent lock_requests[r]    *)
(* changes nothing.                                                        *)
C3_Release ==
    [][(phase = "locks" /\ StatementOf(TickState, TickState.active_thread).kind = "Unlock") =>
        LET pre == remaining_states[idx]
            post == remaining_states'[idx]
            a == pre.active_thread
            r == RefOfStatement(pre, a, StatementOf(pre, a))
        IN  IF r \in DOMAIN pre.lock_requests
            THEN /\ Frame(post) = Frame(pre)
                 /\ DOMAIN post.lock_requests = DOMAIN pre.lock_requests \ {r}
                 /\ \A x \in DOMAIN post.lock_requests :
                        post.lock_requests[x] = pre.lock_requests[x]
                 /\ DOMAIN post.threads = DOMAIN pre.threads
                 /\ \A t \in DOMAIN pre.threads :
                        IF \E j \in DOMAIN pre.lock_requests[r] : pre.lock_requests[r][j] = t
                        THEN post.threads[t] = [pre.threads[t] EXCEPT !.state = Enabled]
                        ELSE post.threads[t] = pre.threads[t]
            ELSE post = pre
    ]_vars

\* a Release has just removed the entry and woken two queued threads
C3_Witness ==
    /\ phase = "joins"
    /\ StatementOf(TickState, TickState.active_thread).kind = "Unlock"
    /\ LET a == TickState.active_thread
           r == RefOfStatement(TickState, a, StatementOf(TickState, a))
           woken == {t \in DOMAIN TickState.threads \ {a} :
                        /\ StatementOf(TickState, t).kind = "Lock"
                        /\ RefOfStatement(TickState, t, StatementOf(TickState, t)) = r
                        /\ TickState.threads[t].state = Enabled}
       IN  r \notin DOMAIN TickState.lock_requests /\ Cardinality(woken) = 2

---------------------------------------------------------------------------
---------------------------------------------------------------------------
(* C5  Deadlock detection: the deadlock check flags a state exactly when   *)
(* no thread is Enabled, thread 0 is not Finished, and no thread is        *)
(* Excepted.                                                               *)
IsDeadlock(state) ==
    /\ \A t \in DOMAIN state.threads : state.threads[t].state # Enabled
    /\ state.threads[0].state # Finished
    /\ \A t \in DOMAIN state.threads : state.threads[t].state # Excepted

C5_DeadlockFlag ==
    [][phase = "deadlock" => ((result' = "Panic") <=> IsDeadlock(TickState))]_vars

\* the check has just flagged a state in which two threads wait for each
\* other's lock and thread 0 waits to join them
C5_Witness ==
    /\ phase = "aborted"
    /\ result = "Panic"
    /\ IsDeadlock(TickState)
    /\ \E r1, r2 \in DOMAIN TickState.lock_requests :
          r1 # r2 /\ TickState.lock_requests[r1] # <<>> /\ TickState.lock_requests[r2] # <<>>

---------------------------------------------------------------------------
(* C6  A detected deadlock is reported to the caller as an Invalid result  *)
(* (the driver returns an error position), not as a process abort.         *)
C6_DeadlockReportedInvalid ==
    (phase = "aborted" /\ IsDeadlock(TickState)) => result = "Err"

---------------------------------------------------------------------------
(* C7  Two-thread lock scenario (A: lock(m); x = 1; unlock(m);             *)
(* B: lock(m); x = 2; unlock(m)): the deadlock check never fires, no path  *)
(* is cut by the bound, every path that runs out of Enabled threads has    *)
(* run main and both threads to completion, and its heap has x = 2 when    *)
(* A's critical section came first and x = 1 when B's came first.          *)
Position(path, entry) == CHOOSE j \in DOMAIN path : path[j] = entry

---------------------------------------------------------------------------
(* C8  Join readiness: after update_joins every thread whose current       *)
(* statement is Join is Enabled iff no thread that lists it in its parents *)
(* set is still living (not Finished), and Disabled otherwise; every       *)
(* thread whose current statement is not Join is unchanged.                *)
C8_JoinReadiness ==
    [][phase = "joins" =>
        LET pre == remaining_states[idx]
            post == remaining_states'[idx]
            living(t) == \E c \in DOMAIN post.threads :
                            t \in post.threads[c].parents
                            /\ post.threads[c].state # Finished
        IN  /\ Frame(post) = Frame(pre)
            /\ post.lock_requests = pre.lock_requests
            /\ DOMAIN post.threads = DOMAIN pre.threads
            /\ \A t \in DOMAIN pre.threads :
                  IF StatementOf(pre, t).kind = "Join"
                  THEN /\ post.threads[t].state \in {Enabled, Disabled}
                       /\ (post.threads[t].state = Enabled <=> ~ living(t))
                       /\ [post.threads[t] EXCEPT !.state = Enabled]
                              = [pre.threads[t] EXCEPT !.state = Enabled]
                  ELSE post.threads[t] = pre.threads[t]
    ]_vars

\* update_joins has just enabled a joining thread whose children all finished
C8_Witness ==
    /\ phase = "deadlock"
    /\ \E t \in DOMAIN TickState.threads :
          /\ StatementOf(TickState, t).kind = "Join"
          /\ TickState.threads[t].state = Enabled
          /\ \E c \in DOMAIN TickState.threads : t \in TickState.threads[c].parents
          /\ \A c \in DOMAIN TickState.threads :
                t \in TickState.threads[c].parents => TickState.threads[c].state = Finished

---------------------------------------------------------------------------
(* C9  A Finished thread never transitions: no MPOR, lock, unlock or join  *)
(* update and no driver step changes the state or the pc of a thread that  *)
(* is Finished, and no Finished thread is scheduled as the active thread   *)
(* of a transition.                                                        *)
FinishedStay(pre, post) ==
    \A t \in DOMAIN pre.threads :
        pre.threads[t].state = Finished =>
            /\ t \in DOMAIN post.threads
            /\ post.threads[t].state = Finished
            /\ post.threads[t].pc = pre.threads[t].pc

\* the states a step of the second loop has added to the resulting-states map
Added(old, new) ==
    UNION {{new[pc][j] : j \in (IF pc \in DOMAIN old THEN Len(old[pc]) ELSE 0) + 1 .. Len(new[pc])} :
              pc \in DOMAIN new}

C9_FinishedNeverTransitions ==
    [][/\ phase \in {"mpor", "locks", "joins", "deadlock"} =>
            FinishedStay(remaining_states[idx], remaining_states'[idx])
       /\ phase = "expand" =>
            \A j \in Len(scheduled_states) + 1 .. Len(scheduled_states') :
                LET s == scheduled_states'[j]
                IN  /\ s.threads[s.active_thread].state # Finished
                    /\ FinishedStay(remaining_states[idx], s)
       /\ (phase = "pop" /\ scheduled_states # <<>>) =>
            LET popped == Last(scheduled_states)
            IN  /\ popped.threads[popped.active_thread].state # Finished
                /\ \A s \in Added(resulting_states, resulting_states') :
                       FinishedStay(popped, s)
       /\ phase = "returned" =>
            \A s \in Range(remaining_states') : \E o \in AllStates : o = s
    ]_vars

\* the driver steps a state in which another thread has already Finished
C9_Witness ==
    /\ phase = "pop"
    /\ scheduled_states # <<>>
    /\ LET popped == Last(scheduled_states)
       IN  /\ popped.threads[popped.active_thread].state = Enabled
           /\ \E t \in DOMAIN popped.threads : popped.threads[t].state = Finished
    /\ resulting_states # EmptyMap

---------------------------------------------------------------------------
(* C10  MPOR soundness: the final heaps reachable with the filter on are   *)
(* the final heaps reachable with it off (the programs have no branch, so  *)
(* the path constraint of every outcome is the same, and a heap names no   *)
(* thread): a path that runs out of Enabled threads in one mode ends in a  *)
(* heap that the other mode reaches too.  With the filter on, a thread     *)
(* woken from a lock queue by a thread of a higher tid is rejected at its  *)
(* next statement unless that statement is itself a lock or unlock, so     *)
(* the outcomes that need the wait are lost and this is violated.          *)
FinalHeaps ==
    [p \in {"TwoLock", "Queued"} |->
        [filter \in BOOLEAN |-> final_heaps(InitState(p), p, filter)]]

C10_MporSound ==
    (phase = "expand" /\ transition_states(TickState) = <<>>) =>
        TickState.heap \in FinalHeaps[prog][~ mpor]

---------------------------------------------------------------------------
(* C11  MPOR rejection rule: the transition of the active thread is        *)
(* rejected iff some thread with a tid above the active thread's has       *)
(* recorded accesses that do not conflict with the current access set.  A  *)
(* thread with a lower tid never causes a rejection.                       *)

\* the state is one the filter is applied to (heuristics.rs:68-69)
Filtered == phase = "mpor" /\ mpor /\ TickState.path # <<>>

\* the current access set of the transition (mpor.rs:11-14)
CurrAccesses(state) ==
    get_all_accesses(state, Program(prog)[Last(state.path)[2]])
    \o get_lock_accesses(state, Program(prog)[ActivePc(state)])

\* thread t has recorded accesses that do not conflict with the current set
Independent(state, t) ==
    /\ state.threads[t].prev_accesses.some
    /\ ~ has_access_conflicts(state.threads[t].prev_accesses.acc, CurrAccesses(state))

C11_RejectionRule ==
    [][Filtered =>
        (phase' # "locks" <=>
            \E t \in DOMAIN TickState.threads :
                t > TickState.active_thread /\ Independent(TickState, t))
    ]_vars

\* the only state of the leaf has just been rejected because of a thread
\* above the active one, while a thread below it also had independent
\* recorded accesses
C11_Witness ==
    /\ mpor
    /\ phase = "pop"
    /\ scheduled_states = <<>>
    /\ Len(remaining_states) = 1
    /\ LET s == remaining_states[1]
           mine == s.threads[s.active_thread].prev_accesses
           indep(t) == /\ s.threads[t].prev_accesses.some
                       /\ ~ has_access_conflicts(s.threads[t].prev_accesses.acc, mine.acc)
       IN  /\ mine.some
           /\ \E t \in DOMAIN s.threads : t > s.active_thread /\ indep(t)
           /\ \E t \in DOMAIN s.threads : t < s.active_thread /\ indep(t)

---------------------------------------------------------------------------
(* C12  MPOR acceptance post-state: when the transition is accepted, every *)
(* other thread whose recorded accesses conflict with the current access   *)
(* set has them cleared, every other thread is left as it was, the active  *)
(* thread's recorded accesses are the current access set, and nothing else *)
(* of the state changes.                                                   *)
C12_AcceptancePostState ==
    [][(Filtered /\ phase' = "locks") =>
        LET pre == TickState
            post == remaining_states'[idx]
            active == pre.active_thread
        IN  /\ [post EXCEPT !.threads = EmptyMap] = [pre EXCEPT !.threads = EmptyMap]
            /\ DOMAIN post.threads = DOMAIN pre.threads
            /\ post.threads[active] =
                  [pre.threads[active] EXCEPT !.prev_accesses = Some(CurrAccesses(pre))]
            /\ \A t \in DOMAIN pre.threads \ {active} :
                  IF /\ pre.threads[t].prev_accesses.some
                     /\ has_access_conflicts(pre.threads[t].prev_accesses.acc,
                                             CurrAccesses(pre))
                  THEN post.threads[t] = [pre.threads[t] EXCEPT !.prev_accesses = None]
                  ELSE post.threads[t] = pre.threads[t]
    ]_vars

\* an accepted transition has left one other thread with its recorded
\* accesses and the active thread with a non-empty access set, all other
\* recorded accesses being cleared
C12_Witness ==
    /\ mpor
    /\ phase = "locks"
    /\ TickState.path # <<>>
    /\ LET s == TickState
       IN  /\ s.threads[s.active_thread].prev_accesses.some
           /\ s.threads[s.active_thread].prev_accesses.acc # <<>>
           /\ \E t \in DOMAIN s.threads \ {s.active_thread} :
                  s.threads[t].prev_accesses.some
           /\ \E t \in DOMAIN s.threads \ {s.active_thread} :
                  /\ ~ s.threads[t].prev_accesses.some
                  /\ s.threads[t].pc \notin {0, 10, 20}

---------------------------------------------------------------------------
(* C13  Conflict relation: has_access_conflicts(prev, curr) is true iff    *)
(* some access of prev and some access of curr are, in either order, a     *)
(* field write with a read or write of the same field on intersecting      *)
(* reference sets, an element write with an element read or write on       *)
(* intersecting reference sets at indices the prover cannot distinguish,   *)
(* two lock actions on intersecting reference sets, or a Join(tid) with a  *)
(* FinishedThread whose parents contain tid.  The code has the last pair   *)
(* in one order only (FinishedThread in prev, Join in curr), so this is    *)
(* violated.                                                               *)
ConflictPair(x, y) ==
    \/ /\ x.kind = "FieldWrite" /\ y.kind \in {"FieldRead", "FieldWrite"}
       /\ x.field = y.field /\ x.refs \cap y.refs # {}
    \/ /\ x.kind = "ElemWrite" /\ y.kind \in {"ElemRead", "ElemWrite"}
       /\ x.refs \cap y.refs # {} /\ ~ Distinguished(x.index, y.index)
    \/ /\ x.kind = "LockAction" /\ y.kind = "LockAction" /\ x.refs \cap y.refs # {}
    \/ /\ x.kind = "Join" /\ y.kind = "FinishedThread" /\ x.tid \in y.parents

---------------------------------------------------------------------------
(* C14  At the moment a state the driver produced in an earlier tick       *)
(* enters the driver, its active thread is in the thread table and is      *)
(* Enabled.  The driver also routes the state of a thread that has just    *)
(* run its function exit, with that thread Finished, so this is violated.  *)

\* the state at remaining_states[idx] is as it entered the driver, and an
\* earlier tick produced it
AtEntry == phase = "mpor" /\ TickState.path # <<>>

C14_ActiveEnabledAtEntry ==
    AtEntry =>
        /\ TickState.active_thread \in DOMAIN TickState.threads
        /\ TickState.threads[TickState.active_thread].state = Enabled

\* The active thread is in the table and is the thread of the last path
\* entry; it is Finished when the step that produced the state was the exit
\* of its outermost method (the thread still stands at that FunctionExit),
\* and Enabled otherwise.
C14_ActiveEnabledOrJustFinished ==
    AtEntry =>
        /\ TickState.active_thread \in DOMAIN TickState.threads
        /\ LET thread == TickState.threads[TickState.active_thread]
               last == Last(TickState.path)
           IN  /\ last[1] = TickState.active_thread
               /\ thread.state =
                     IF /\ Program(prog)[last[2]].kind = "FunctionExit"
                        /\ thread.pc = last[2]
                     THEN Finished ELSE Enabled

\* a state enters the driver with its active thread Finished while another
\* thread is still to run
C14_Witness ==
    /\ AtEntry
    /\ TickState.threads[TickState.active_thread].state = Finished
    /\ \E t \in DOMAIN TickState.threads : TickState.threads[t].state = Enabled

---------------------------------------------------------------------------
(* C15  In every state of the search, path_length is the number of         *)
(* (tid, pc) entries of the path trace, whatever the kind of the steps     *)
(* (Continue, FunctionCall, Return, Finish).  Only a Continue step counts  *)
(* in path_length while every step adds a path entry, so this is violated. *)

\* the states of the search: those the driver holds and those it dropped
SearchStates == AllStates \cup Range(retired)

C15_PathLengthIsPathSize ==
    \A s \in SearchStates : s.path_length = Len(s.path)

\* the entries of a path whose statement is left by a Continue step: neither
\* a call (FunctionCall) nor a function exit (Return, Finish)
ContinueSteps(path) ==
    {j \in DOMAIN path : Program(prog)[path[j][2]].kind \notin {"Call", "FunctionExit"}}

\* In a state the driver holds, path_length is the number of Continue steps
\* of the path; in a state it has dropped, the last entry is the step that
\* was not taken.  path_length never exceeds the size of the path.
C15_PathLengthCountsContinues ==
    /\ \A s \in AllStates : s.path_length = Cardinality(ContinueSteps(s.path))
    /\ \A s \in Range(retired) :
          s.path_length = Cardinality(ContinueSteps(Front(s.path)))
    /\ \A s \in SearchStates : s.path_length <= Len(s.path)

\* a routed state whose path has a call, a return and the exit of a thread
\* next to Continue steps
C15_Witness ==
    \E s \in BucketStates(resulting_states) :
        /\ s.path_length > 0
        /\ s.path_length < Len(s.path)
        /\ \E j \in DOMAIN s.path : Program(prog)[s.path[j][2]].kind = "Call"
        /\ \E j \in DOMAIN s.path :
              /\ Program(prog)[s.path[j][2]].kind = "FunctionExit"
              /\ s.threads[s.path[j][1]].state = Finished
        /\ \E j \in DOMAIN s.path :
              /\ Program(prog)[s.path[j][2]].kind = "FunctionExit"
              /\ s.threads[s.path[j][1]].state = Enabled

---------------------------------------------------------------------------
(* C16  In every state of the search, path_length <= k.                    *)
C16_PathLengthBounded ==
    \A s \in SearchStates : s.path_length <= K

\* a state has reached the bound and has been retired for it
C16_Witness ==
    /\ ~ expired
    /\ \E s \in Range(retired) : s.path_length = K

---------------------------------------------------------------------------
(* C17  Retirement by the bound or the time budget: a popped state whose   *)
(* path_length >= k, or that is popped after the budget expired, has its   *)
(* active thread marked Finished, is not stepped (nothing else of it       *)
(* changes but the path entry of the pop), enters no bucket of the         *)
(* resulting-states map, and the loop goes on with the other scheduled     *)
(* states.                                                                 *)
C17_Retirement ==
    [][(/\ phase = "pop"
        /\ scheduled_states # <<>>
        /\ expired' = expired
        /\ Last(scheduled_states).path_length >= K \/ expired) =>
        LET popped == Last(scheduled_states)
            left == [popped EXCEPT
                       !.path = Append(@, <<popped.active_thread, ActivePc(popped)>>),
                       !.threads[popped.active_thread].state = Finished]
        IN  /\ retired' = Append(retired, left)
            /\ resulting_states' = resulting_states
            /\ scheduled_states' = Front(scheduled_states)
            /\ path_counter' = path_counter
            /\ phase' = "pop"
            /\ result' = "None"
    ]_vars

\* a state has been retired after the budget expired, with states routed
\* before it and states still scheduled behind it
C17_Witness ==
    /\ expired
    /\ phase = "pop"
    /\ retired # <<>>
    /\ Last(retired).path_length < K
    /\ Last(retired).threads[Last(retired).active_thread].state = Finished
    /\ scheduled_states # <<>>
    /\ resulting_states # EmptyMap

---------------------------------------------------------------------------
(* C18  When the step of a scheduled state yields InvalidAssertion(pos) or *)
(* InvalidFork(pos), the driver returns pos as an error at once: it        *)
(* returns no resulting-states map, and the states still scheduled and     *)
(* those already routed in this tick are discarded.                        *)

\* the state the next turn of the second loop steps, with its path entry
Popped ==
    LET popped == Last(scheduled_states)
    IN  [popped EXCEPT !.path = Append(@, <<popped.active_thread, ActivePc(popped)>>)]

\* the second loop is about to step a state (it is not retired on the pop)
Stepping ==
    /\ phase = "pop"
    /\ scheduled_states # <<>>
    /\ expired' = expired
    /\ ~ out_of_budget(Popped)

C18_InvalidReturnsError ==
    [][(Stepping /\ action(Popped, Program(prog)).next.kind
                        \in {"InvalidAssertion", "InvalidFork"}) =>
        /\ result' = "Err"
        /\ position' = action(Popped, Program(prog)).next.pc
        /\ phase' = "aborted"
        /\ scheduled_states' = <<>>
        /\ resulting_states' = EmptyMap
        /\ phase' # "returned"
    ]_vars

\* the assertion of thread 2 has failed after the state of thread 3 had been
\* routed and while the state of thread 1 was still scheduled
C18_Witness ==
    /\ phase = "aborted"
    /\ result = "Err"
    /\ position = 21
    /\ scheduled_states = <<>>
    /\ resulting_states = EmptyMap
    /\ \E s \in Range(remaining_states) :
          {t \in DOMAIN s.threads : s.threads[t].state = Enabled} = {1, 2, 3}

---------------------------------------------------------------------------
(* C19  Path-local dead ends: a state whose step yields InfeasiblePath or  *)
(* Excepted is retired silently: it enters no bucket of the resulting-     *)
(* states map, the tick goes on to return Ok, and the other scheduled      *)
(* states are left as they were to be processed in their turn.             *)
C19_DeadEndsRetireSilently ==
    [][(Stepping /\ action(Popped, Program(prog)).next.kind
                        \in {"InfeasiblePath", "Excepted"}) =>
        /\ resulting_states' = resulting_states
        /\ scheduled_states' = Front(scheduled_states)
        /\ path_counter' = path_counter
        /\ phase' = "pop"
        /\ result' = "None"
        /\ Len(retired') = Len(retired) + 1
        /\ Last(retired') \notin BucketStates(resulting_states')
    ]_vars

\* a tick has returned Ok although an assumption was infeasible on a state
\* that was popped before another scheduled state, which has been routed
C19_Witness ==
    /\ phase = "returned"
    /\ result = "Ok"
    /\ ~ expired
    /\ retired # <<>>
    /\ Program(prog)[Last(retired[1].path)[2]].kind = "Assume"
    /\ retired[1].path_length < K
    /\ resulting_states # EmptyMap

---------------------------------------------------------------------------
(* C20  Every bucket of the map the driver returns is non-empty and all    *)
(* its states are at the same (active_thread, pc): the same active thread  *)
(* id, and that thread at the same program counter.  The map is keyed by   *)
(* the pc alone, and two threads that run the same method meet in one      *)
(* bucket, so this is violated.                                            *)
C20_BucketsAtOnePoint ==
    phase = "returned" =>
        \A pc \in DOMAIN resulting_states :
            /\ resulting_states[pc] # <<>>
            /\ \A s1, s2 \in Range(resulting_states[pc]) :
                  /\ s1.active_thread = s2.active_thread
                  /\ ActivePc(s1) = ActivePc(s2)

\* Every bucket of the map, while the tick builds it and when it is
\* returned, is non-empty and holds states whose active thread stands at
\* the pc that keys the bucket.
C20_BucketsAtOnePc ==
    \A pc \in DOMAIN resulting_states :
        /\ resulting_states[pc] # <<>>
        /\ \A s \in Range(resulting_states[pc]) :
              /\ s.active_thread \in DOMAIN s.threads
              /\ ActivePc(s) = pc

\* a returned map with two buckets, one of them holding states of different
\* active threads
C20_Witness ==
    /\ phase = "returned"
    /\ Cardinality(DOMAIN resulting_states) > 1
    /\ \E pc \in DOMAIN resulting_states :
          \E s1, s2 \in Range(resulting_states[pc]) :
              s1.active_thread # s2.active_thread

---------------------------------------------------------------------------
(* C21  Interleaving expansion.  A state that the MPOR filter accepted and *)
(* that went through the lock and join updates is expanded into exactly    *)
(* one transition-state per thread that is then Enabled: the states        *)
(* appended to scheduled_states are clones of the source state that differ *)
(* from it in active_thread only, every Enabled thread is the active       *)
(* thread of exactly one of them, no Disabled, Finished or Excepted thread *)
(* is the active thread of any, and the states scheduled before stay.      *)
EnabledThreads(state) ==
    {t \in DOMAIN state.threads : state.threads[t].state = Enabled}

Appended(old, new) == SubSeq(new, Len(old) + 1, Len(new))

C21_InterleavingExpansion ==
    [][phase = "expand" =>
        LET source == remaining_states[idx]
            added == Appended(scheduled_states, scheduled_states')
        IN  /\ Len(scheduled_states') >= Len(scheduled_states)
            /\ SubSeq(scheduled_states', 1, Len(scheduled_states)) = scheduled_states
            /\ Len(added) = Cardinality(EnabledThreads(source))
            /\ \A t \in EnabledThreads(source) :
                  Cardinality({j \in DOMAIN added : added[j].active_thread = t}) = 1
            /\ \A j \in DOMAIN added :
                  /\ added[j] = [source EXCEPT !.active_thread = added[j].active_thread]
                  /\ source.threads[added[j].active_thread].state = Enabled
            /\ remaining_states' = remaining_states
    ]_vars

\* the filter's acceptance leads to the expansion, unless the deadlock check
\* stops the process
C21_AcceptedIsExpanded ==
    [][/\ (phase = "mpor" /\ phase' # "locks") =>
              /\ mpor /\ remaining_states[idx].path # <<>>
              /\ ~ validate_quasi_monotonicity(remaining_states[idx],
                        Program(prog)[Last(remaining_states[idx].path)[2]],
                        Program(prog)[ActivePc(remaining_states[idx])]).out
              /\ scheduled_states' = scheduled_states
       /\ phase = "locks" => phase' = "joins"
       /\ phase = "joins" => phase' = "deadlock"
       /\ phase = "deadlock" =>
              phase' = IF check_deadlock(remaining_states[idx]) THEN "aborted" ELSE "expand"
    ]_vars

\* a source state with a Disabled, a Finished and two Enabled threads has
\* just been expanded into its two transition-states
C21_Witness ==
    /\ phase = "pop"
    /\ Len(remaining_states) = 1
    /\ LET source == remaining_states[1]
       IN  /\ \E t \in DOMAIN source.threads : source.threads[t].state = Disabled
           /\ \E t \in DOMAIN source.threads : source.threads[t].state = Finished
           /\ Cardinality(EnabledThreads(source)) = 2
           /\ scheduled_states = transition_states(source)
           /\ Len(scheduled_states) = 2
           /\ scheduled_states[1].active_thread # scheduled_states[2].active_thread

---------------------------------------------------------------------------
(* C22  finish_state_in_path(leaf) removes the leaf from the children of   *)
(* its parent, then every ancestor that is left without children from the  *)
(* children of its own parent, and stops at the first ancestor that still  *)
(* has another child; every node that is not one of these parents is       *)
(* untouched.  It returns true iff the removal reaches the root, which is  *)
(* iff no leaf remains in the tree besides the one handed in, and false    *)
(* otherwise.                                                              *)
\* the leaf, its parent, ..., the root
RECURSIVE Chain(_, _)
Chain(t, n) ==
    IF t[n].parent = NoParent THEN <<n>> ELSE <<n>> \o Chain(t, t[n].parent)

\* the position in the chain of the first ancestor with another child, or
\* of the root
StopsAt(t, chain) ==
    Min({j \in 2..Len(chain) : Len(t[chain[j]].children) > 1} \cup {Len(chain)})

C22_FinishStateInPath ==
    [][tree_last' = "finish" =>
        LET chain == Chain(tree, tree_leaf')
            stop == StopsAt(tree, chain)
            emptied == {chain[j] : j \in 2..stop}
        IN  /\ DOMAIN tree' = DOMAIN tree
            /\ \A j \in 2..stop :
                  tree'[chain[j]] =
                      [tree[chain[j]] EXCEPT !.children = Retain(@, chain[j - 1])]
            /\ \A j \in 2..stop : chain[j - 1] \notin Range(tree'[chain[j]].children)
            /\ \A n \in DOMAIN tree \ emptied : tree'[n] = tree[n]
            /\ tree_out' \in {"true", "false"}
            /\ tree_out' = "true" <=>
                  \A j \in 2..Len(chain) : Len(tree[chain[j]].children) = 1
            /\ tree_out' = "true" <=> LiveLeaves(tree') \ {tree_leaf'} = {}
            /\ tree_out' = "false" =>
                  /\ Len(tree[chain[stop]].children) > 1
                  /\ tree'[chain[stop]].children # <<>>
    ]_vars

\* the call has removed the leaf, its parent and its grandparent and has
\* stopped below the root, which keeps another subtree
C22_Witness ==
    /\ tree_last = "finish"
    /\ tree_out = "false"
    /\ tree_leaf \in DOMAIN tree
    /\ LET chain == Chain(tree, tree_leaf)
       IN  /\ Len(chain) = 4
           /\ tree[chain[2]].children = <<>>
           /\ tree[chain[3]].children = <<>>
           /\ chain[3] \notin Range(tree[chain[4]].children)
           /\ \E n \in LiveLeaves(tree) : Len(Chain(tree, n)) > 2

---------------------------------------------------------------------------
(* C23  Reference resolution on a symbolic reference.  With exactly one    *)
(* candidate in the alias entry the operation is applied once, to that     *)
(* candidate.  With n > 1 candidates the state is split into n successors, *)
(* the j-th with the alias entry narrowed to the j-th candidate and the    *)
(* operation (the over-ref hook, the lock, the unlock) applied to that     *)
(* candidate.  The code applies the operation to the first candidate of    *)
(* the list and splits nothing, so this is violated.                       *)
Candidates == ref_state.alias_map["s"].aliases

\* the state narrowed to its j-th candidate
Narrowed(j) == [ref_state EXCEPT !.alias_map["s"].aliases = <<Candidates[j]>>]

\* the operation applied to the reference
Applied(state, ref) ==
    CASE ref_op = "exec" -> exec_over_ref(state, ref)
      [] ref_op = "lock" -> lock_ref(state, ref)
      [] ref_op = "unlock" -> unlock_ref(state, ref)

C23_SplitPerCandidate ==
    ref_done =>
        IF Len(Candidates) = 1
        THEN ref_out = <<Applied(ref_state, Candidates[1].ref)>>
        ELSE /\ Len(ref_out) = Len(Candidates)
             /\ \A j \in DOMAIN Candidates :
                   ref_out[j] = Applied(Narrowed(j), Candidates[j].ref)

---------------------------------------------------------------------------
(* C24  Fork.  The step of a fork statement adds exactly one thread to the *)
(* thread table: its tid was not a key of the table, it stands at the      *)
(* callee's entry pc with a stack of exactly one frame, its parent set is  *)
(* {forking tid} and its state is Enabled.  Every thread that existed is   *)
(* unchanged; the forking thread has only been moved to its next statement *)
(* by the driver.                                                          *)
\* the second loop is about to step a fork of a method that exists
Forking ==
    /\ Stepping
    /\ Program(prog)[ActivePc(Popped)].kind = "Fork"
    /\ Program(prog)[ActivePc(Popped)].entry \in DOMAIN Program(prog)

---------------------------------------------------------------------------
(* C25  MD2U computes shortest distances.  For a method without calls, the *)
(* call returns, and the Distance of every pc reachable from the entry is  *)
(* (ToFirstUncovered, d), d being the number of statements on a shortest   *)
(* path from the pc up to and including the nearest uncovered statement,   *)
(* when an uncovered statement is reachable from the pc, and otherwise     *)
(* (ToEndOfMethod, d), d being the number of statements on a shortest path *)
(* to the method exit.  The call panics when the head of a while loop is   *)
(* uncovered, so this is violated.                                         *)
NoCallCfgs == {"While", "NestedWhile", "Branch", "LoopBranch", "BranchLoop"}

Successors(cfg, pc) == IF pc \in DOMAIN cfg.flow THEN Range(cfg.flow[pc]) ELSE {}

\* the pcs from which a path of at most k statements leads into targets
RECURSIVE Within(_, _, _)
Within(cfg, targets, k) ==
    IF k <= 1 THEN targets
    ELSE LET near == Within(cfg, targets, k - 1)
         IN  near \cup {pc \in DOMAIN cfg.program : Successors(cfg, pc) \cap near # {}}

\* the number of statements on a shortest path from pc into targets (0: none)
StatementsTo(cfg, pc, targets) ==
    LET n == Cardinality(DOMAIN cfg.program)
        ks == {k \in 1..n : pc \in Within(cfg, targets, k)}
    IN  IF ks = {} THEN 0 ELSE Min(ks)

\* the Distance that section 4.8.1 defines for the pc
ShortestDistance(cfg, coverage, pc) ==
    LET uncovered == DOMAIN cfg.program \ coverage
        exits == {q \in DOMAIN cfg.program : cfg.program[q].kind = "FunctionExit"}
        to_uncovered == StatementsTo(cfg, pc, uncovered)
    IN  IF to_uncovered > 0 THEN Distance(ToFirstUncovered, to_uncovered)
        ELSE Distance(ToEndOfMethod, StatementsTo(cfg, pc, exits))

\* the pcs reachable from the entry of main
ReachableFromEntry(cfg) ==
    {pc \in DOMAIN cfg.program :
        StatementsTo(cfg, cfg.entry["main"], {pc}) > 0}

C25_ShortestDistances ==
    (md_done /\ md_cfg \in NoCallCfgs) =>
        /\ md_result.status = "ok"
        /\ \A pc \in ReachableFromEntry(Cfg(md_cfg)) :
              /\ pc \in DOMAIN md_result.pc_to_distance
              /\ md_result.pc_to_distance[pc] =
                    ShortestDistance(Cfg(md_cfg), md_coverage, pc)

---------------------------------------------------------------------------
(* C26  Fully covered program.  When every pc of the program is covered,   *)
(* min_distance_to_uncovered_method returns normally and every pc of the   *)
(* returned map has a Distance of type ToEndOfMethod.  The call panics for *)
(* an if/else whose branches flow into a while head, and for main calling  *)
(* two mutually recursive methods, so this is violated.                    *)
FullyCovered == md_coverage = DOMAIN Cfg(md_cfg).program

C26_FullyCovered ==
    (md_done /\ FullyCovered) =>
        /\ md_result.status = "ok"
        /\ \A pc \in DOMAIN md_result.pc_to_distance :
              md_result.pc_to_distance[pc].distance_type = ToEndOfMethod

---------------------------------------------------------------------------
(* C27  One uncovered pc.  Starting from a fully covered method without    *)
(* calls, marking one pc u uncovered turns the distance of every pc from   *)
(* which u is reachable into type ToFirstUncovered, and the new value is   *)
(* strictly less than the pc's old ToEndOfMethod value iff u lies on a     *)
(* shortest path from the pc to the method exit.  The call panics when u   *)
(* is the head of a while loop, so this is violated.                       *)
Uncovered == DOMAIN Cfg(md_cfg).program \ md_coverage

\* the result for the same method with every pc covered
OldResult == Md2uOf(md_cfg, md_method, DOMAIN Cfg(md_cfg).program)

Exits(cfg) == {q \in DOMAIN cfg.program : cfg.program[q].kind = "FunctionExit"}

\* u lies on a shortest path from pc to the exit
OnShortestPath(cfg, pc, u) ==
    /\ StatementsTo(cfg, pc, {u}) > 0
    /\ StatementsTo(cfg, u, Exits(cfg)) > 0
    /\ StatementsTo(cfg, pc, {u}) + StatementsTo(cfg, u, Exits(cfg)) - 1
          = StatementsTo(cfg, pc, Exits(cfg))

C27_OneUncovered ==
    (/\ md_done
     /\ md_cfg \in NoCallCfgs
     /\ Cardinality(Uncovered) = 1
     /\ OldResult.status = "ok") =>
        LET u == CHOOSE pc \in Uncovered : TRUE
            cfg == Cfg(md_cfg)
        IN  /\ md_result.status = "ok"
            /\ \A pc \in DOMAIN cfg.program :
                  StatementsTo(cfg, pc, {u}) > 0 =>
                     /\ md_result.pc_to_distance[pc].distance_type = ToFirstUncovered
                     /\ (md_result.pc_to_distance[pc].value
                            < OldResult.pc_to_distance[pc].value)
                           <=> OnShortestPath(cfg, pc, u)

---------------------------------------------------------------------------
(* C28  While loop, fully covered.  For main(int) with the body            *)
(* `while (i < 10) i = i + 1;` and every pc covered, the map is exactly    *)
(* {0:7, 2:6, 5:5, 8:4, 10:6, 12:5, 15:3, 17:2, 18:1}, every entry of type *)
(* ToEndOfMethod.                                                          *)
WhileFullyCovered ==
    (0 :> 7) @@ (2 :> 6) @@ (5 :> 5) @@ (8 :> 4) @@ (10 :> 6) @@ (12 :> 5)
       @@ (15 :> 3) @@ (17 :> 2) @@ (18 :> 1)

C28_WhileFullyCovered ==
    (md_done /\ md_cfg = "While" /\ FullyCovered) =>
        /\ md_result.status = "ok"
        /\ md_result.pc_to_distance =
              [pc \in DOMAIN WhileFullyCovered |->
                  Distance(ToEndOfMethod, WhileFullyCovered[pc])]

C28_Witness ==
    /\ md_done
    /\ md_cfg = "While"
    /\ FullyCovered
    /\ md_result.status = "ok"
    /\ md_result.pc_to_distance[10] = Distance(ToEndOfMethod, 6)

---------------------------------------------------------------------------
(* C29  While loop with the body statement at pc 12 uncovered and every    *)
(* other pc covered: the map is exactly {0:6, 2:5, 5:4, 8:3, 10:2, 12:1}   *)
(* of type ToFirstUncovered and {15:3, 17:2, 18:1} of type ToEndOfMethod.  *)
WhileBodyUncovered ==
    (0 :> 6) @@ (2 :> 5) @@ (5 :> 4) @@ (8 :> 3) @@ (10 :> 2) @@ (12 :> 1)
       @@ (15 :> 3) @@ (17 :> 2) @@ (18 :> 1)

C29_WhileBodyUncovered ==
    (md_done /\ md_cfg = "While" /\ Uncovered = {12}) =>
        /\ md_result.status = "ok"
        /\ md_result.pc_to_distance =
              [pc \in DOMAIN WhileBodyUncovered |->
                  Distance(IF pc \in {15, 17, 18} THEN ToEndOfMethod
                           ELSE ToFirstUncovered,
                           WhileBodyUncovered[pc])]

C29_Witness ==
    /\ md_done
    /\ md_cfg = "While"
    /\ Uncovered = {12}
    /\ md_result.status = "ok"
    /\ md_result.pc_to_distance[12] = Distance(ToFirstUncovered, 1)
    /\ md_result.pc_to_distance[15] = Distance(ToEndOfMethod, 3)

---------------------------------------------------------------------------
(* C30  Reducibility.  In recursive.oox f_recursive (entry 12) has one     *)
(* branch that calls f_recursive itself (pc 21) and one that returns       *)
(* without a call.  When the calls at 8 and 21 are covered, the call       *)
(* returns with a concrete Distance for every pc; the cost of f_recursive  *)
(* is the minimum over its paths that do not pass through the self-call;   *)
(* and the entry of the self-call is that cost, plus one for the call,     *)
(* plus the cost of the remainder after it.                                *)
SelfCalls(cfg, method) ==
    {pc \in DOMAIN cfg.program : method \in Range(cfg.program[pc].methods)}

\* the CFG without the statements pcs
Without(cfg, pcs) ==
    [cfg EXCEPT !.program = [pc \in DOMAIN cfg.program \ pcs |-> cfg.program[pc]],
                !.flow = [pc \in DOMAIN cfg.flow \ pcs |->
                             SelectSeq(cfg.flow[pc], LAMBDA q : q \notin pcs)]]

\* the minimum over the paths of the method that pass through no self-call
SelfCallFreeCost(cfg, coverage, method) ==
    ShortestDistance(Without(cfg, SelfCalls(cfg, method)), coverage, cfg.entry[method])

MethodPcs == {12, 13, 15, 18, 21, 23, 25, 27, 28}

Reducing ==
    /\ md_done
    /\ md_cfg = "Recursive"
    /\ md_method = "f_recursive"
    /\ 21 \in md_coverage

---------------------------------------------------------------------------
(* C31  fix_cycles is idempotent.  For every loop head pc, head cost c and *)
(* cost map, fix_cycles(pc, c, map) applied twice leaves the map that one  *)
(* application leaves.  As stated, for every head cost, this is violated   *)
(* when c is itself a Cycle on pc with a positive increment; it holds for  *)
(* every head cost that is not a Cycle on the head itself.                 *)
FixedCycles == alg_done /\ alg_op = "fix_cycles"

\* the head cost cycles back to the head itself
HeadOnItself == alg_in.cost.k = "Cycle" /\ alg_in.cost.pc = alg_in.pc

\* the entries of the map that are a Cycle on the head
CyclesOnHead(map, pc) ==
    {k \in DOMAIN map : map[k].k = "Cycle" /\ map[k].pc = pc}

---------------------------------------------------------------------------
(* C32  When a loop head pc finishes, fix_cycles rewrites every            *)
(* Cycle(pc, c) of the cost map: afterwards no map entry contains          *)
(* Cycle(pc, _), at top level or nested inside Plus or Minimal, the key    *)
(* set is unchanged, and the entries that did not refer to the head are    *)
(* unchanged.  A Cycle nested inside a Plus is left in place, so this is   *)
(* violated.                                                               *)
RECURSIVE ContainsCycle(_, _)
ContainsCycle(c, pc) ==
    CASE c.k = "Cycle" -> c.pc = pc
      [] c.k \in {"Plus", "Minimal"} -> ContainsCycle(c.c1, pc) \/ ContainsCycle(c.c2, pc)
      [] OTHER -> FALSE

C32_NoCycleOnHeadLeft ==
    FixedCycles =>
        /\ DOMAIN alg_out.once = DOMAIN alg_in.map
        /\ \A k \in DOMAIN alg_in.map :
              /\ ~ ContainsCycle(alg_out.once[k], alg_in.pc)
              /\ ~ ContainsCycle(alg_in.map[k], alg_in.pc) =>
                    alg_out.once[k] = alg_in.map[k]

---------------------------------------------------------------------------
(* C33  MD2U is deterministic and idempotent.  A second call on the same   *)
(* program, flow and coverage returns the distance and the pc-to-distance  *)
(* map (same keys, same values) of the first call, with a new cache and    *)
(* with the cache the first call left.  With the cache of the first call   *)
(* the methods it holds are not traversed again and their pcs are missing  *)
(* from the map, so this is violated.                                      *)
Repeated == md_done /\ md_again # NotRepeated

C33_SameAgain ==
    Repeated =>
        \A again \in {md_again.fresh, md_again.reused} :
            /\ again.status = "ok"
            /\ again.distance = md_result.distance
            /\ again.pc_to_distance = md_result.pc_to_distance

---------------------------------------------------------------------------
(* C34  The method-cost cache holds a method only with a fully concrete    *)
(* cost: every cost a call site finds in the cache during a traversal is   *)
(* a Cost, and so is every entry of the cache when the call returns.  The  *)
(* cost of a method is put into the cache whether it is solved or not, so  *)
(* a call site can find an unsolved cost: this is violated.                *)
Concrete(c) == c.k = "Cost"

CalledMd2u == {md_result, md_again.fresh, md_again.reused} \ {NotCalled}

C34_CacheConcrete ==
    \A call \in CalledMd2u :
        /\ \A c \in call.found : Concrete(c)
        /\ \A m \in DOMAIN call.cache : Concrete(call.cache[m])

---------------------------------------------------------------------------
(* C35  Lock-queue invariant.  In every state the driver holds, each tid   *)
(* occurs at most once over all the queues of lock_requests, and a thread  *)
(* is in a queue exactly when it is Disabled and its current statement is  *)
(* a Lock; so an Enabled or Finished thread is in no queue.                *)
QueuePlaces(state) ==
    {<<r, j>> \in (DOMAIN state.lock_requests) \X (1..8) :
        j <= Len(state.lock_requests[r])}

PlacesOf(state, t) ==
    {x \in QueuePlaces(state) : state.lock_requests[x[1]][x[2]] = t}

C35_LockQueues ==
    \A s \in AllStates :
        /\ \A x \in QueuePlaces(s) : s.lock_requests[x[1]][x[2]] \in DOMAIN s.threads
        /\ \A t \in DOMAIN s.threads :
              /\ Cardinality(PlacesOf(s, t)) <= 1
              /\ PlacesOf(s, t) # {} <=>
                    (s.threads[t].state = Disabled /\ StatementOf(s, t).kind = "Lock")
              /\ s.threads[t].state \in {Enabled, Finished} => PlacesOf(s, t) = {}

\* a thread waits in the queue of a lock while another thread is Enabled
\* and a third waits at a Join outside every queue
C35_Witness ==
    \E s \in AllStates : \E r \in DOMAIN s.lock_requests :
        /\ Len(s.lock_requests[r]) = 1
        /\ \E t \in DOMAIN s.threads :
              s.threads[t].state = Enabled /\ PlacesOf(s, t) = {}
        /\ \E t \in DOMAIN s.threads :
              /\ s.threads[t].state = Disabled
              /\ StatementOf(s, t).kind = "Join"
              /\ PlacesOf(s, t) = {}

---------------------------------------------------------------------------
(* C36  Locks are re-entrant-safe.  A thread that reaches lock(r) while it *)
(* holds r (it has passed a lock(r) and not yet its unlock(r)) is not      *)
(* blocked by its own lock: it is never in the queue of r.  lock_ref       *)
(* queues and disables whoever finds the entry of r, its creator too, so   *)
(* this is violated.                                                       *)
C36_NoSelfBlock ==
    \A s \in AllStates : \A r \in DOMAIN s.lock_requests :
        \A t \in Range(s.lock_requests[r]) : ~ PassedLock(s, t, r)

---------------------------------------------------------------------------
(* C37  Routing consistency of the driver.  Every state that a turn of the *)
(* pop loop pushes into the bucket of pc has its active thread at pc; its  *)
(* active thread is the thread whose statement the turn executed (the      *)
(* last entry of its path); and every other thread that existed before     *)
(* the turn stands at the pc it stood at.                                  *)
BucketOf(m, pc) == IF pc \in DOMAIN m THEN m[pc] ELSE <<>>

Pushed(pc) == Appended(BucketOf(resulting_states, pc), BucketOf(resulting_states', pc))

C37_RoutingConsistent ==
    [][Step =>
        LET popped == Last(scheduled_states)
        IN  \A pc \in DOMAIN resulting_states' : \A s \in Range(Pushed(pc)) :
                /\ s.active_thread \in DOMAIN s.threads
                /\ ActivePc(s) = pc
                /\ s.active_thread = popped.active_thread
                /\ Last(s.path) = <<popped.active_thread, ActivePc(popped)>>
                /\ \A t \in DOMAIN popped.threads \ {popped.active_thread} :
                      /\ t \in DOMAIN s.threads
                      /\ s.threads[t].pc = popped.threads[t].pc]_vars

\* a returned bucket holds a state of three threads whose active thread is
\* a forked one that has just moved to the pc of the bucket
C37_Witness ==
    /\ phase = "returned"
    /\ \E pc \in DOMAIN resulting_states : \E s \in Range(resulting_states[pc]) :
          /\ Cardinality(DOMAIN s.threads) = 3
          /\ s.active_thread # 0
          /\ ActivePc(s) = pc
          /\ Last(s.path)[1] = s.active_thread
          /\ Last(s.path)[2] # pc

---------------------------------------------------------------------------
(* C38  Branching on Continue.  When the action on the popped state        *)
(* answers Continue and the pc of the active thread has n >= 1 successors  *)
(* in the flow map, the turn pushes exactly n states, one per successor    *)
(* pc; each has the path_length of the popped state plus 1; the state of   *)
(* the first successor keeps the path_id and each other one has a path_id  *)
(* that no state had before and that no other branch has.  At a pc with    *)
(* no successor the statement is a FunctionExit and the one state pushed   *)
(* has its active thread Finished.                                         *)
AllPushed == UNION {Range(Pushed(pc)) : pc \in DOMAIN resulting_states'}

NumberPushed ==
    TotalLen([pc \in DOMAIN resulting_states' |-> Pushed(pc)], DOMAIN resulting_states')

IssuedBefore ==
    {s.path_id : s \in AllStates \cup Range(retired)} \cup 0..path_counter

---------------------------------------------------------------------------
(* C39  MD2U terminates.  On every program whose cycles pass through a     *)
(* While head, with self and mutual recursion among its methods, and on    *)
(* every coverage, the call comes to an end, returning or panicking,       *)
(* after at most one call of min_distance_to_statement for each flow of    *)
(* the program and one for each method.                                    *)
MostCalls(name) ==
    TotalLen(Cfg(name).flow, DOMAIN Cfg(name).flow) + Cardinality(DOMAIN Cfg(name).entry)

C39_Terminates ==
    md_done =>
        /\ md_result.status \in {"ok", "panic"}
        /\ md_result.calls <= MostCalls(md_cfg)

\* main of recursive.oox, fully covered: the loop and the recursive method
\* are traversed in 16 calls
C39_Witness ==
    /\ md_done
    /\ md_cfg = "Recursive"
    /\ md_method = "main"
    /\ FullyCovered
    /\ md_result.status = "ok"
    /\ md_result.calls = 16

---------------------------------------------------------------------------
(* C40  Placeholder substitution preserves meaning.  For every cost tree   *)
(* c, method name m and distance d, replace_method_call_in_costs(m, c, d)  *)
(* denotes the value of c with each UnexploredMethodCall(m) read as        *)
(* Cost(d), where Plus denotes the sum and Minimal the minimum, whatever   *)
(* the other placeholders stand for.  A Minimal whose operands are not     *)
(* both concrete after the substitution becomes a Plus, so this is         *)
(* violated; a Plus that stays unresolved is returned as it was, which     *)
(* keeps its value.                                                        *)
Replaced == alg_done /\ alg_op = "replace"

\* the value of a cost tree when the placeholder of method m stands for
\* the distance meaning[m]
RECURSIVE Denoted(_, _)
Denoted(c, meaning) ==
    CASE c.k = "Cost" -> c.d
      [] c.k = "UnexploredMethodCall" -> meaning[c.m]
      [] c.k = "Plus" ->
            Distance(Min({Denoted(c.c1, meaning).distance_type,
                          Denoted(c.c2, meaning).distance_type}),
                     Denoted(c.c1, meaning).value + Denoted(c.c2, meaning).value)
      [] c.k = "Minimal" -> DistanceMin(Denoted(c.c1, meaning), Denoted(c.c2, meaning))

C40_SubstitutionPreservesMeaning ==
    Replaced =>
        \A meaning \in [Methods -> Distances] :
            meaning[alg_in.method] = alg_in.d =>
                Denoted(alg_out.replaced, meaning) = Denoted(alg_in.cost, meaning)

====
